---- MODULE Spec2Model ----
(***************************************************************************)
(* Verification model of the delta compiler's execution scheduler, the     *)
(* backend upgrade chain, the table-alteration batcher, the link table     *)
(* decision, the inheritance delta engine, the atom type migration, the    *)
(* pointer storage adjustment, the mapping index maintainer with its       *)
(* index introspection, the creation of concepts and the execution of a    *)
(* whole delta against a backend of edgedb/server/pgsql/delta.py, and of   *)
(* the type rule registry of edgedb/lang/schema/types.py.                  *)
(***************************************************************************)
EXTENDS Integers, Sequences, FiniteSets, TLC

(***************************************************************************)
(* Bounds of the model.                                                    *)
(***************************************************************************)
MaxItems == 4
MaxCalls == 3
MaxLinks == 3
MaxBases == 3
MaxAtoms == 3
MaxPriority == 1
MaxRules == 3

Priorities == (0 - MaxPriority)..MaxPriority

VARIABLES
    pgops,      \* command id -> its OrderedSet of pgops (ops and child commands)
    priority,   \* physical op id -> its priority attribute
    phase,      \* "apply", "exec", "done" or "failed" (position of AlterRealm)
    queue,      \* the sequence serialize_ops() returned to AlterRealm.execute
    pos,        \* index in queue of the next op of AlterRealm.execute
    executed,   \* physical ops whose execute() has returned, in order
    result,     \* what AlterRealm.execute handed to its caller
    metaRun     \* trace of the last MetaCommand.execute: [cmd, ops]

schedVars == <<pgops, priority, phase, queue, pos, executed, result, metaRun>>

VARIABLES
    backend_info,   \* rows of the format marker table: {} or {format_version}
    db,             \* physical objects (tables, columns, ...) present in the backend
    upg,            \* the UpgradeBackend object: constructed, actual_version
    upc,            \* "idle", "steps", "done", "failed" or "interrupted"
    version,        \* loop variable of UpgradeBackend.execute
    ranSteps,       \* steps that returned during the current execute, in order
    atStart,        \* backend state and actual_version when execute was entered
    ranBefore,      \* this UpgradeBackend object already completed an execute
    resumed,        \* the current execute follows an interrupted one
    stepsDone       \* steps that ever ran to completion on this deployment

upgVars == <<backend_info, db, upg, upc, version, ranSteps, atStart, ranBefore,
             resumed, stepsDone>>

VARIABLES
    multicommands,  \* self._multicommands[dbops.AlterTable]: key -> batch ids
    table_name,     \* self.table_name ("" stands for None)
    batches,        \* every AlterTable object created: table, priority, kwargs, ops
    calls,          \* the get_alter_table calls made so far and what they returned
    attached,       \* the batches in self.pgops, in the order attach_alter_table added them
    batch_state     \* "applying", "attached" (attach_alter_table was called), "returned"

batchVars == <<multicommands, table_name, batches, calls, attached, batch_state>>

VARIABLES
    links,          \* the schema's links besides the builtin root, in creation order
    linkTables      \* links whose table some CreateLink has provided

linkVars == <<links, linkTables>>

VARIABLES
    orig_source,    \* the object before the rebase: [bases, own]
    source,         \* the object after the rebase: [bases, own]
    source_kind,    \* "concept", "link" (has a table) or "link-notable"
    base_ops,       \* the operations apply_base_delta or DeleteLink emitted
    parents,        \* the parents of the object's table in the backend, in order
    bd_state        \* "start", "rebased" or "deleted"

baseVars == <<orig_source, source, source_kind, base_ops, parents, bd_state>>

VARIABLES
    atoms,              \* atom id -> its list of bases (atom ids)
    users,              \* atom id -> number of links whose target is the atom
    local_constraints,  \* atom id -> number of constraints defined on the atom
    atom_call,          \* the call made: alter_atom or alter_atom_type and its arguments
    atom_pgops,         \* the operations the call added to self.pgops
    atom_state          \* "start", "returned" or "raised"

atomVars == <<atoms, users, local_constraints, atom_call, atom_pgops, atom_state>>

VARIABLES
    schema_pointers,  \* the schema's pointers with an atom target: links and link properties
    atu_atom,  \* the atom alter_atom_type was called for ("" before the call)
    atu_ops,  \* the column type alterations the call added, in order
    atu_state  \* "start" or "returned"

userVars == <<schema_pointers, atu_atom, atu_ops, atu_state>>

VARIABLES
    ptr_in,  \* the altered pointer: old and new target, old and new storage, the atom commands scanned
    ptr_call,  \* "none", "adjust_pointer_storage" or "alter_host_table_column"
    ptr_ops  \* what the call emitted, in order

ptrVars == <<ptr_in, ptr_call, ptr_ops>>

VARIABLES
    map_existing,  \* link table -> the index data fetched for it: [mapping, links, predicate]
    map_schema,  \* link -> its mapping in the schema, "absent" before it is created
    map_links,  \* update_mapping_indexes.links: link name -> the (command, link) pairs
    realm_pgops,  \* the commands whose operations AlterRealm serializes, in order
    map_state,  \* "collect", "applied", "raised" or "executed"
    map_executed  \* the physical operations in the order AlterRealm.execute runs them

mapVars == <<map_existing, map_schema, map_links, realm_pgops, map_state, map_executed>>

VARIABLES
    rules,  \* TypeRules.rules: the registered signatures with their results
    rule_calls,  \* the add_rule calls made so far, in order
    rule_query,  \* the operator and the argument types get_result was called with
    rule_result  \* "unasked", "none" (None) or the type get_result returned

ruleVars == <<rules, rule_calls, rule_query, rule_result>>

VARIABLES
    cc_in,  \* the CreateConcept command: the concept and its one property
    cc_ops,  \* the operations CreateConcept.apply and the property's CreateLink.apply added
    cc_state  \* "start" or "returned"

conceptVars == <<cc_in, cc_ops, cc_state>>

VARIABLES
    delta_db0,  \* the backend objects before the delta
    delta_db,  \* the backend objects now
    delta_cmds,  \* the commands of the delta applied so far
    delta_pgops,  \* the physical operations collected by AlterRealm.apply
    delta_state,  \* begin, children, interrupted or done
    delta_queue,  \* the sequence AlterRealm.serialize_ops produced
    delta_pos,  \* operations of delta_queue the first execution went through
    delta_ok,  \* FALSE when the backend rejected an operation
    delta_runs  \* executions of the delta started after the first

deltaVars == <<delta_db0, delta_db, delta_cmds, delta_pgops, delta_state, delta_queue, delta_pos, delta_ok, delta_runs>>

vars == <<schedVars, upgVars, batchVars, linkVars, baseVars, atomVars, userVars, ptrVars, mapVars, ruleVars, conceptVars, deltaVars>>

notSchedVars == <<upgVars, batchVars, linkVars, baseVars, atomVars, userVars, ptrVars, mapVars, ruleVars, conceptVars, deltaVars>>
notUpgVars == <<schedVars, batchVars, linkVars, baseVars, atomVars, userVars, ptrVars, mapVars, ruleVars, conceptVars, deltaVars>>
notBatchVars == <<schedVars, upgVars, linkVars, baseVars, atomVars, userVars, ptrVars, mapVars, ruleVars, conceptVars, deltaVars>>
notLinkVars == <<schedVars, upgVars, batchVars, baseVars, atomVars, userVars, ptrVars, mapVars, ruleVars, conceptVars, deltaVars>>
notBaseVars == <<schedVars, upgVars, batchVars, linkVars, atomVars, userVars, ptrVars, mapVars, ruleVars, conceptVars, deltaVars>>
notAtomVars == <<schedVars, upgVars, batchVars, linkVars, baseVars, userVars, ptrVars, mapVars, ruleVars, conceptVars, deltaVars>>
notUserVars == <<schedVars, upgVars, batchVars, linkVars, baseVars, atomVars, ptrVars, mapVars, ruleVars, conceptVars, deltaVars>>
notPtrVars == <<schedVars, upgVars, batchVars, linkVars, baseVars, atomVars, userVars, mapVars, ruleVars, conceptVars, deltaVars>>
notMapVars == <<schedVars, upgVars, batchVars, linkVars, baseVars, atomVars, userVars, ptrVars, ruleVars, conceptVars, deltaVars>>
notRuleVars == <<schedVars, upgVars, batchVars, linkVars, baseVars, atomVars, userVars, ptrVars, mapVars, conceptVars, deltaVars>>
notConceptVars == <<schedVars, upgVars, batchVars, linkVars, baseVars, atomVars, userVars, ptrVars, mapVars, ruleVars, deltaVars>>
notDeltaVars == <<schedVars, upgVars, batchVars, linkVars, baseVars, atomVars, userVars, ptrVars, mapVars, ruleVars, conceptVars>>

(***************************************************************************)
(* Helpers on sequences.                                                   *)
(***************************************************************************)
Range(s) == {s[i] : i \in DOMAIN s}

RECURSIVE Concat(_)
Concat(ss) == IF ss = <<>> THEN <<>> ELSE Head(ss) \o Concat(Tail(ss))

\* ascending enumeration of a finite set of integers: sorted(keys)
RECURSIVE SortedSeq(_)
SortedSeq(S) ==
    IF S = {} THEN <<>>
    ELSE LET m == CHOOSE x \in S : \A y \in S : x <= y
         IN  <<m>> \o SortedSeq(S \ {m})

Reverse(s) == [i \in 1..Len(s) |-> s[Len(s) + 1 - i]]

(***************************************************************************)
(* The command tree.  An item of pgops is a physical operation (a dbops    *)
(* object) or a nested MetaCommand.                                        *)
(***************************************************************************)
OpItem(o) == [kind |-> "op", id |-> o]
CmdItem(c) == [kind |-> "cmd", id |-> c]

AlterRealm == 1

\* datastructures.OrderedSet.add: first insertion fixes the position
OrderedSetAdd(s, x) == IF x \in Range(s) THEN s ELSE Append(s, x)

\* queue.append(op) of _serialize_ops, and a variant that pushes to the front
QueueAppendFront(q, o) == <<o>> \o q
QueueAppend(q, o) == Append(q, o)

\* AlterRealm._serialize_ops: depth-first walk filling the priority queues
RECURSIVE _serialize_ops(_, _)
RECURSIVE _serialize_items(_, _)
_serialize_items(items, queues) ==
    IF items = <<>> THEN queues
    ELSE LET op == Head(items)
             q1 == IF op.kind = "cmd"
                   THEN _serialize_ops(op.id, queues)
                   ELSE LET p == priority[op.id]
                            queue0 == IF p \in DOMAIN queues THEN queues[p] ELSE <<>>
                        IN  [k \in (DOMAIN queues) \cup {p} |->
                                IF k = p THEN QueueAppend(queue0, op.id) ELSE queues[k]]
         IN  _serialize_items(Tail(items), q1)
_serialize_ops(obj, queues) == _serialize_items(pgops[obj], queues)

EmptyQueues == [k \in {} |-> <<>>]

\* sorted(queues.items(), key=lambda i: i[0]): ascending bucket order, and
\* the descending variant (reverse=True, as MetaCommand.execute sorts)
SortedKeysReversed(S) == Reverse(SortedSeq(S))
SortedKeys(S) == SortedSeq(S)

\* AlterRealm.serialize_ops: chain of the buckets in ascending priority
serialize_ops ==
    LET queues == _serialize_ops(AlterRealm, EmptyQueues)
        keys == SortedKeys(DOMAIN queues)
    IN  Concat([i \in 1..Len(keys) |-> queues[keys[i]]])

\* getattr(i, 'priority', 0): a nested MetaCommand has no priority attribute
PriorityOrZero(item) == IF item.kind = "op" THEN priority[item.id] ELSE 0

\* sorted(self.pgops, key=..., reverse=True): stable, highest priority first
SortedPgops(items) ==
    LET keys == Reverse(SortedSeq({PriorityOrZero(items[i]) : i \in DOMAIN items}))
    IN  Concat([k \in 1..Len(keys) |->
                  SelectSeq(items, LAMBDA it : PriorityOrZero(it) = keys[k])])

\* MetaCommand.execute: the ops it executes, nested commands included
RECURSIVE MetaCommandExecute(_)
RECURSIVE MetaExecuteItems(_)
MetaExecuteItems(items) ==
    IF items = <<>> THEN <<>>
    ELSE LET op == Head(items)
         IN  (IF op.kind = "cmd" THEN MetaCommandExecute(op.id) ELSE <<op.id>>)
             \o MetaExecuteItems(Tail(items))
MetaCommandExecute(c) == MetaExecuteItems(SortedPgops(pgops[c]))

(***************************************************************************)
(* Initial state: a freshly constructed AlterRealm with empty pgops.       *)
(***************************************************************************)
UpgradeIdle ==
    /\ backend_info = {}
    /\ db = {}
    /\ upg = [constructed |-> FALSE, actual_version |-> 0]
    /\ upc = "idle"
    /\ version = 0
    /\ ranSteps = <<>>
    /\ atStart = [backend_info |-> {}, db |-> {}, actual |-> 0, again |-> FALSE]
    /\ ranBefore = FALSE
    /\ resumed = FALSE
    /\ stepsDone = {}

BatchIdle ==
    /\ multicommands = [k \in {} |-> <<>>]
    /\ table_name = ""
    /\ batches = <<>>
    /\ calls = <<>>
    /\ attached = <<>>
    /\ batch_state = "applying"

LinkIdle ==
    /\ links = <<>>
    /\ linkTables = {}

BaseIdle ==
    /\ orig_source = [bases |-> <<>>, own |-> {}]
    /\ source = [bases |-> <<>>, own |-> {}]
    /\ source_kind = "concept"
    /\ base_ops = <<>>
    /\ parents = <<>>
    /\ bd_state = "start"

AtomIdle ==
    /\ atoms = <<>>
    /\ users = <<>>
    /\ local_constraints = <<>>
    /\ atom_call = [fn |-> "none"]
    /\ atom_pgops = <<>>
    /\ atom_state = "start"

UsersIdle ==
    /\ schema_pointers = <<>>
    /\ atu_atom = ""
    /\ atu_ops = <<>>
    /\ atu_state = "start"

PointerIdle ==
    /\ ptr_in = [old_target |-> "a", new_target |-> "a", old_table |-> "concept",
                 new_table |-> "concept", atom_cmds |-> {}]
    /\ ptr_call = "none"
    /\ ptr_ops = <<>>

MappingIdle ==
    /\ map_existing = [l \in {"L", "K"} |->
                          [mapping |-> "none", links |-> {}, predicate |-> "parsed"]]
    /\ map_schema = [l \in {"L", "K"} |-> "absent"]
    /\ map_links = [l \in {"L", "K"} |-> <<>>]
    /\ realm_pgops = <<>>
    /\ map_state = "collect"
    /\ map_executed = <<>>

RulesIdle ==
    /\ rules = <<>>
    /\ rule_calls = <<>>
    /\ rule_query = [op |-> "", args |-> <<>>]
    /\ rule_result = "unasked"

ConceptIdle ==
    /\ cc_in = [is_virtual |-> FALSE, base_object |-> FALSE, atomic |-> TRUE,
                mapping |-> "11", props |-> FALSE, search |-> FALSE,
                has_default |-> FALSE, gen_table |-> FALSE]
    /\ cc_ops = <<>>
    /\ cc_state = "start"

DeltaIdle ==
    /\ delta_db0 = {}
    /\ delta_db = {}
    /\ delta_cmds = <<>>
    /\ delta_pgops = <<>>
    /\ delta_state = "idle"
    /\ delta_queue = <<>>
    /\ delta_pos = 0
    /\ delta_ok = TRUE
    /\ delta_runs = 0

SchedIdle ==
    /\ pgops = <<(<<>>)>>
    /\ priority = <<>>
    /\ phase = "apply"
    /\ queue = <<>>
    /\ pos = 1
    /\ executed = <<>>
    /\ result = [status |-> "none"]
    /\ metaRun = [cmd |-> 0, ops |-> <<>>]

Init ==
    /\ SchedIdle
    /\ DeltaIdle
    /\ ConceptIdle
    /\ RulesIdle
    /\ MappingIdle
    /\ PointerIdle
    /\ UsersIdle
    /\ UpgradeIdle
    /\ BatchIdle
    /\ LinkIdle
    /\ BaseIdle
    /\ AtomIdle

\* self.pgops.add(dbops.X(..., priority=p)) inside some command's apply
AddOp(c, p) ==
    /\ phase = "apply"
    /\ Len(priority) + (Len(pgops) - 1) < MaxItems
    /\ LET o == Len(priority) + 1
       IN  /\ priority' = Append(priority, p)
           /\ pgops' = [pgops EXCEPT ![c] = OrderedSetAdd(@, OpItem(o))]
    /\ UNCHANGED <<phase, queue, pos, executed, result, metaRun>>
    /\ UNCHANGED notSchedVars

\* MetaCommand.apply: for op in self.ops: self.pgops.add(op)
AddCommand(c) ==
    /\ phase = "apply"
    /\ Len(priority) + (Len(pgops) - 1) < MaxItems
    /\ LET n == Len(pgops) + 1
       IN  pgops' = Append([pgops EXCEPT ![c] = OrderedSetAdd(@, CmdItem(n))], <<>>)
    /\ UNCHANGED <<priority, phase, queue, pos, executed, result, metaRun>>
    /\ UNCHANGED notSchedVars

\* AlterRealm.execute, entry: the serialized sequence is computed once
ExecuteStart ==
    /\ phase = "apply"
    /\ queue' = serialize_ops
    /\ pos' = 1
    /\ phase' = IF serialize_ops = <<>> THEN "done" ELSE "exec"
    /\ result' = IF serialize_ops = <<>> THEN [status |-> "ok"] ELSE result
    /\ UNCHANGED <<pgops, priority, executed, metaRun>>
    /\ UNCHANGED notSchedVars

\* for op in self.serialize_ops(): op.execute(context) -- the op returns
ExecuteOp ==
    /\ phase = "exec"
    /\ executed' = Append(executed, queue[pos])
    /\ pos' = pos + 1
    /\ phase' = IF pos = Len(queue) THEN "done" ELSE "exec"
    /\ result' = IF pos = Len(queue) THEN [status |-> "ok"] ELSE result
    /\ UNCHANGED <<pgops, priority, queue, metaRun>>
    /\ UNCHANGED notSchedVars

\* a loop that would swallow the exception and go on with the next op
ExecuteOpRaisesContinue ==
    /\ phase = "exec"
    /\ pos' = pos + 1
    /\ phase' = IF pos = Len(queue) THEN "failed" ELSE "exec"
    /\ result' = [status |-> "raised", op |-> queue[pos]]
    /\ UNCHANGED <<pgops, priority, queue, executed, metaRun>>
    /\ UNCHANGED notSchedVars

\* op.execute(context) raises: nothing catches it, the loop is left
ExecuteOpRaises ==
    /\ phase = "exec"
    /\ phase' = "failed"
    /\ result' = [status |-> "raised", op |-> queue[pos]]
    /\ UNCHANGED <<pgops, priority, queue, pos, executed, metaRun>>
    /\ UNCHANGED notSchedVars

\* MetaCommand.execute(context) called on command c
MetaExecute(c) ==
    /\ phase = "apply"
    /\ c /= AlterRealm     \* AlterRealm overrides execute
    /\ metaRun' = [cmd |-> c, ops |-> MetaCommandExecute(c)]
    /\ phase' = "meta"
    /\ UNCHANGED <<pgops, priority, queue, pos, executed, result>>
    /\ UNCHANGED notSchedVars

Next ==
    \/ \E c \in 1..(MaxItems + 1), p \in Priorities : c <= Len(pgops) /\ AddOp(c, p)
    \/ \E c \in 1..(MaxItems + 1) : c <= Len(pgops) /\ AddCommand(c)
    \/ ExecuteStart
    \/ ExecuteOp
    \/ ExecuteOpRaises
    \/ \E c \in 1..(MaxItems + 1) : c <= Len(pgops) /\ MetaExecute(c)

Spec == Init /\ [][Next]_vars

(***************************************************************************)
(* Claims about the execution scheduler.                                   *)
(***************************************************************************)
AllOps == DOMAIN priority

IndexOf(s, x) == CHOOSE i \in DOMAIN s : s[i] = x

\* plain depth-first walk of the command tree, in pgops order
RECURSIVE Walk(_)
RECURSIVE WalkItems(_)
WalkItems(items) ==
    IF items = <<>> THEN <<>>
    ELSE (IF Head(items).kind = "cmd" THEN Walk(Head(items).id) ELSE <<Head(items).id>>)
         \o WalkItems(Tail(items))
Walk(c) == WalkItems(pgops[c])

OwnOps(c) == {pgops[c][i].id : i \in {k \in DOMAIN pgops[c] : pgops[c][k].kind = "op"}}

\* C1: when AlterRealm executes, the ops run in ascending priority, and once
\* an op of priority P2 has run every op of the tree with a priority P1 < P2
\* has already run.
C1_PriorityBucketsInOrder ==
    /\ \A i, j \in DOMAIN executed :
          i < j => priority[executed[i]] <= priority[executed[j]]
    /\ \A o \in Range(executed) : \A o2 \in AllOps :
          priority[o2] < priority[o] => o2 \in Range(executed)

C1_Witness ==
    /\ phase = "done"
    /\ \E i, j \in DOMAIN executed :
          /\ i < j
          /\ priority[executed[i]] < priority[executed[j]]
          /\ executed[i] > executed[j]
    /\ Len(pgops) > 1

\* C2: inside one priority bucket the ops run in discovery order, the order
\* of a depth-first walk of the command tree in the order items were added.
C2_DiscoveryOrderInBucket ==
    phase \in {"exec", "done", "failed"} =>
        /\ \A p \in Priorities :
              SelectSeq(queue, LAMBDA o : priority[o] = p)
                = SelectSeq(Walk(AlterRealm), LAMBDA o : priority[o] = p)
        /\ executed = SubSeq(queue, 1, Len(executed))

C2_Witness ==
    /\ phase = "done"
    /\ \E i, j \in DOMAIN executed :
          /\ i < j
          /\ priority[executed[i]] = priority[executed[j]]
          /\ executed[i] > executed[j]

\* C3: MetaCommand.execute runs a command's own physical ops so that an op
\* of lower priority runs before an op of higher priority.
C3_LowerPriorityFirst ==
    phase = "meta" =>
        LET own == SelectSeq(metaRun.ops, LAMBDA o : o \in OwnOps(metaRun.cmd))
        IN  \A i, j \in DOMAIN own : i < j => priority[own[i]] <= priority[own[j]]

\* C4: when an op raises during AlterRealm.execute the caller gets that very
\* exception, and the ops executed are exactly those before the failing op:
\* nothing after it in the serialized sequence runs.
C4_FailureIsFatal ==
    result.status = "raised" =>
        /\ phase = "failed"
        /\ pos \in DOMAIN queue
        /\ result.op = queue[pos]
        /\ executed = SubSeq(queue, 1, pos - 1)
        /\ result.op \notin Range(executed)

C4_Witness ==
    /\ phase = "failed"
    /\ 1 < pos
    /\ pos < Len(queue)

(***************************************************************************)
(* The backend upgrade chain (UpgradeBackend).                             *)
(*                                                                         *)
(* The backend is the set of physical objects the steps create, drop or    *)
(* rename.  Row-level statements (Insert, Update, Delete, Comment) and the *)
(* statements a step derives from introspected rows are "data" ops: they   *)
(* leave the set of objects alone.  Where a step loops over the concepts   *)
(* or links of the deployment, the deployment has one non-virtual concept  *)
(* C and one specialized non-atomic link L.                                *)
(***************************************************************************)
BACKEND_FORMAT_VERSION == 30

\* physical operations with their existence guards
BasicOp(act, obj, to, gk, go) ==
    [act |-> act, obj |-> obj, to |-> to, gk |-> gk, go |-> go]
Create(o) == BasicOp("create", o, "", "none", "")
CreateIfAbsent(o) == BasicOp("create", o, "", "absent", o)
CreateIfPresent(o, g) == BasicOp("create", o, "", "present", g)
Drop(o) == BasicOp("drop", o, "", "none", "")
DropIfPresent(o) == BasicOp("drop", o, "", "present", o)
Rename(a, b) == BasicOp("rename", a, b, "none", "")
RenameIfPresent(a, b) == BasicOp("rename", a, b, "present", a)
Data == BasicOp("data", "", "", "none", "")

\* dbops.CommandGroup(conditions=..., neg_conditions=...) around some ops
Group(gk, go, ops) == [gk |-> gk, go |-> go, ops |-> ops]
Plain(ops) == Group("none", "", ops)

\* conditions must hold, neg_conditions must not hold, else the op is skipped
GuardHolds(gk, go, objs) ==
    \/ gk = "none"
    \/ gk = "absent" /\ go \notin objs
    \/ gk = "present" /\ go \in objs

\* one statement against the backend: st is [db, ok]; the backend rejects
\* creating what exists and dropping or renaming what does not
ExecuteBasic(op, st) ==
    IF ~st.ok \/ ~GuardHolds(op.gk, op.go, st.db) \/ op.act = "data" THEN st
    ELSE IF op.act = "create"
         THEN IF op.obj \in st.db THEN [st EXCEPT !.ok = FALSE]
              ELSE [st EXCEPT !.db = @ \cup {op.obj}]
    ELSE IF op.act = "drop"
         THEN IF op.obj \notin st.db THEN [st EXCEPT !.ok = FALSE]
              ELSE [st EXCEPT !.db = @ \ {op.obj}]
    ELSE IF op.obj \notin st.db \/ op.to \in st.db THEN [st EXCEPT !.ok = FALSE]
         ELSE [st EXCEPT !.db = (@ \ {op.obj}) \cup {op.to}]

RECURSIVE ExecuteOps(_, _)
ExecuteOps(ops, st) ==
    IF ops = <<>> THEN st ELSE ExecuteOps(Tail(ops), ExecuteBasic(Head(ops), st))

RECURSIVE ExecuteGroups(_, _)
ExecuteGroups(groups, st) ==
    IF groups = <<>> THEN st
    ELSE LET g == Head(groups)
             st1 == IF st.ok /\ GuardHolds(g.gk, g.go, st.db)
                    THEN ExecuteOps(g.ops, st) ELSE st
         IN  ExecuteGroups(Tail(groups), st1)

update_to_version_1 ==
    <<Plain(<<CreateIfAbsent("caos.feature"), CreateIfAbsent("caos.backend_info"),
              Data, Data>>)>>
update_to_version_2 == <<Plain(<<CreateIfAbsent("type:link_endpoints")>>)>>
update_to_version_3 == <<Plain(<<CreateIfAbsent("caos.concept.is_virtual")>>)>>
update_to_version_4 == <<Plain(<<CreateIfAbsent("caos.concept.automatic")>>)>>
update_to_version_5 == <<Plain(<<CreateIfAbsent("caos.module.imports"), Data, Data>>)>>
update_to_version_6 == <<Plain(<<Data>>)>>
update_to_version_7 ==
    <<Group("absent", "link.mm_source",
            <<Rename("link.source_id", "link.mm_source"),
              Rename("link.target_id", "link.mm_target")>>)>>
update_to_version_8 ==
    <<Group("absent", "caos.link.exposed_behaviour",
            <<Create("caos.link.exposed_behaviour")>>)>>
update_to_version_9 ==
    <<Plain(<<CreateIfAbsent("record:C"), CreateIfAbsent("record:C.concept_id")>>)>>
update_to_version_10 ==
    <<Plain(<<CreateIfAbsent("caos.policy"), CreateIfAbsent("caos.event_policy"),
              CreateIfAbsent("caos.action"), CreateIfAbsent("caos.event"),
              CreateIfAbsent("caos.policy")>>)>>
update_to_version_11 == <<Plain(<<CreateIfAbsent("domain:known_record_marker_t")>>)>>
update_to_version_12 ==
    <<Plain(<<DropIfPresent("record:C.concept_id"), DropIfPresent("record:C")>>)>>
update_to_version_13 ==
    <<Group("absent", "link.linkid", <<Create("link.linkid"), Data, Data>>)>>
update_to_version_14 ==
    <<Plain(<<Data, Data, Data,
              Rename("link.sx_source", "link.mm_source"), Data,
              Rename("link.sx_target", "link.mm_target"), Data,
              Rename("modstat.sx_id", "modstat.mm_id"),
              Rename("modstat.sx_mtime", "modstat.mm_mtime")>>)>>
update_to_version_15 == <<Plain(<<Data, DropIfPresent("table:Virtual_V")>>)>>
update_to_version_16 ==
    <<Plain(<<CreateIfPresent("C.concept_id_check", "table:C")>>)>>
update_to_version_17 ==
    <<Plain(<<Create("table:L"), Create("index:L.target_id_default_idx"),
              Data, Data, Data, Data>>),
      Plain(<<Data>>)>>
update_to_version_18 == <<Plain(<<CreateIfAbsent("function:gen_random_bytes")>>)>>
update_to_version_19 ==
    <<Plain(<<CreateIfAbsent("caos.attribute"), CreateIfAbsent("caos.attribute_value")>>)>>
update_to_version_20 == <<Plain(<<Data, Data>>)>>
update_to_version_21 ==
    <<Plain(<<RenameIfPresent("C_data_concept_id_check", "C.concept_id_check")>>)>>
update_to_version_22 ==
    <<Plain(<<DropIfPresent("C.old_constr")>>),
      Plain(<<CreateIfAbsent("caos.constraint")>>)>>
update_to_version_23 == <<Plain(<<Data, Data, Data>>)>>
update_to_version_24 ==
    <<Group("present", "index:C.old_reg_idx",
            <<Drop("index:C.old_reg_idx"), Create("index:C.autoidx_reg_idx")>>)>>
update_to_version_25 ==
    <<Plain(<<Drop("caos.pointer_cascade_policy"), Drop("caos.pointer_cascade_event"),
              Drop("caos.pointer_cascade_action"), Drop("caos.event_policy"),
              Drop("caos.policy.category"), Create("caos.policy.event"),
              Create("caos.policy.actions"),
              Create("caos.action"), Create("caos.event")>>)>>
update_to_version_26 == <<Plain(<<Drop("caos.link.is_atom")>>)>>
update_to_version_27 == <<Plain(<<Drop("caos.concept.custombases"), Data, Data>>)>>
update_to_version_28 == <<Plain(<<DropIfPresent("caos.event.allowed_actions")>>)>>
update_to_version_29 == <<Plain(<<Data>>)>>
update_to_version_30 ==
    <<Plain(<<Create("caos.link.spectargets"), Drop("caos.concept.is_virtual")>>)>>

\* getattr(self, 'update_to_version_{}'.format(n))
update_to_version ==
    <<update_to_version_1, update_to_version_2, update_to_version_3,
      update_to_version_4, update_to_version_5, update_to_version_6,
      update_to_version_7, update_to_version_8, update_to_version_9,
      update_to_version_10, update_to_version_11, update_to_version_12,
      update_to_version_13, update_to_version_14, update_to_version_15,
      update_to_version_16, update_to_version_17, update_to_version_18,
      update_to_version_19, update_to_version_20, update_to_version_21,
      update_to_version_22, update_to_version_23, update_to_version_24,
      update_to_version_25, update_to_version_26, update_to_version_27,
      update_to_version_28, update_to_version_29, update_to_version_30>>

\* a deployment of format p holds what the steps up to p left and what the
\* steps after p expect to find: [obj, born, died), in format versions
Never == BACKEND_FORMAT_VERSION + 2
Life(o, b, d) == [obj |-> o, born |-> b, died |-> d]
Lifetimes ==
    { Life("table:C", 0, Never), Life("caos.feature", 1, Never),
      Life("caos.backend_info", 1, Never), Life("type:link_endpoints", 2, Never),
      Life("caos.concept.is_virtual", 3, 30), Life("caos.concept.automatic", 4, Never),
      Life("caos.module.imports", 5, Never),
      Life("link.source_id", 0, 7), Life("link.target_id", 0, 7),
      Life("link.sx_source", 7, 14), Life("link.sx_target", 7, 14),
      Life("link.mm_source", 14, Never), Life("link.mm_target", 14, Never),
      Life("caos.link.exposed_behaviour", 8, Never),
      Life("record:C", 9, 12), Life("record:C.concept_id", 9, 12),
      Life("caos.policy", 10, Never), Life("caos.event_policy", 10, 25),
      Life("caos.pointer_cascade_policy", 10, 25),
      Life("caos.pointer_cascade_event", 10, 25),
      Life("caos.pointer_cascade_action", 10, 25),
      Life("caos.policy.category", 10, 25),
      Life("domain:known_record_marker_t", 11, Never),
      Life("link.linkid", 13, Never),
      Life("modstat.sx_id", 0, 14), Life("modstat.sx_mtime", 0, 14),
      Life("modstat.mm_id", 14, Never), Life("modstat.mm_mtime", 14, Never),
      Life("table:Virtual_V", 0, 15),
      Life("C_data_concept_id_check", 16, 21), Life("C.concept_id_check", 21, Never),
      Life("table:L", 17, Never), Life("index:L.target_id_default_idx", 17, Never),
      Life("function:gen_random_bytes", 18, Never),
      Life("caos.attribute", 19, Never), Life("caos.attribute_value", 19, Never),
      Life("C.old_constr", 0, 22), Life("caos.constraint", 22, Never),
      Life("index:C.old_reg_idx", 0, 24), Life("index:C.autoidx_reg_idx", 24, Never),
      Life("caos.action", 25, Never), Life("caos.event", 25, Never),
      Life("caos.policy.event", 25, Never), Life("caos.policy.actions", 25, Never),
      Life("caos.event.allowed_actions", 25, 28),
      Life("caos.link.is_atom", 0, 26), Life("caos.concept.custombases", 0, 27),
      Life("caos.link.spectargets", 30, Never) }

Deployed(p) == {l.obj : l \in {x \in Lifetimes : x.born <= p /\ p < x.died}}

\* the objects AlterRealm.apply creates under a "does not exist" guard
RealmBootstrap ==
    {"caos.feature", "caos.backend_info", "function:gen_random_bytes",
     "domain:known_record_marker_t", "caos.attribute", "caos.attribute_value",
     "caos.constraint", "caos.action", "caos.event", "caos.policy",
     "type:link_endpoints"}

\* backend_info['format_version'] as the caller reads it; no row reads as 0
StoredVersion(rows) == IF rows = {} THEN 0 ELSE CHOOSE v \in rows : TRUE

\* condition = [('format_version', '<', BACKEND_FORMAT_VERSION)]
ConditionNotEqual(v) == v /= BACKEND_FORMAT_VERSION
Condition(v) == v < BACKEND_FORMAT_VERSION

\* dbops.Merge on the single-row marker table: update the row where the
\* condition holds, insert the record when the table has no row
Merge(rows, record) ==
    IF rows = {} THEN {record}
    ELSE {IF Condition(v) THEN record ELSE v : v \in rows}

\* UpgradeBackend.update_backend_info(), executed
update_backend_info(rows) == Merge(rows, BACKEND_FORMAT_VERSION)

\* 'update_to_version_{}'.format(version + 1), and a variant without the + 1
StepOfNoIncrement(v) == v
StepOf(v) == v + 1

DeployedVersions == 0..(BACKEND_FORMAT_VERSION + 1)

InitUpgrade ==
    /\ SchedIdle
    /\ DeltaIdle
    /\ ConceptIdle
    /\ RulesIdle
    /\ MappingIdle
    /\ PointerIdle
    /\ UsersIdle
    /\ BatchIdle
    /\ LinkIdle
    /\ BaseIdle
    /\ AtomIdle
    /\ \E p \in DeployedVersions :
          /\ backend_info = IF p = 0 THEN {} ELSE {p}
          /\ db = Deployed(p)
          /\ stepsDone = {n \in 1..BACKEND_FORMAT_VERSION : n <= p}
    /\ upg = [constructed |-> FALSE, actual_version |-> 0]
    /\ upc = "idle"
    /\ version = 0
    /\ ranSteps = <<>>
    /\ atStart = [backend_info |-> {}, db |-> {}, actual |-> 0, again |-> FALSE]
    /\ ranBefore = FALSE
    /\ resumed = FALSE

\* UpgradeBackend.__init__(backend_info): the caller has read the marker
Construct ==
    /\ upc /= "steps"
    /\ upg' = [constructed |-> TRUE, actual_version |-> StoredVersion(backend_info)]
    /\ ranBefore' = FALSE
    /\ UNCHANGED <<backend_info, db, upc, version, ranSteps, atStart, resumed, stepsDone>>
    /\ UNCHANGED notUpgVars

\* UpgradeBackend.execute is entered: range(actual_version, current_version)
ExecuteBegin ==
    /\ upg.constructed
    /\ upc /= "steps"
    /\ upc' = "steps"
    /\ version' = upg.actual_version
    /\ ranSteps' = <<>>
    /\ atStart' = [backend_info |-> backend_info, db |-> db,
                   actual |-> upg.actual_version,
                   again |-> (upc = "done" /\ ranBefore)]
    /\ resumed' = (upc = "interrupted")
    /\ UNCHANGED <<backend_info, db, upg, ranBefore, stepsDone>>
    /\ UNCHANGED notUpgVars

\* one iteration of the loop: update_to_version_{version + 1}(context)
Step ==
    /\ upc = "steps"
    /\ version < BACKEND_FORMAT_VERSION
    /\ LET n == StepOf(version)
           st == IF n \in DOMAIN update_to_version
                 THEN ExecuteGroups(update_to_version[n], [db |-> db, ok |-> TRUE])
                 ELSE [db |-> db, ok |-> FALSE]
       IN  /\ db' = st.db
           /\ IF st.ok
              THEN /\ version' = version + 1
                   /\ ranSteps' = Append(ranSteps, n)
                   /\ stepsDone' = stepsDone \cup {n}
                   /\ upc' = "steps"
              ELSE /\ upc' = "failed"
                   /\ UNCHANGED <<version, ranSteps, stepsDone>>
    /\ UNCHANGED <<backend_info, upg, atStart, ranBefore, resumed>>
    /\ UNCHANGED notUpgVars

\* the loop is over: op = self.update_backend_info(); op.execute(context)
Persist ==
    /\ upc = "steps"
    /\ ~(version < BACKEND_FORMAT_VERSION)
    /\ backend_info' = update_backend_info(backend_info)
    /\ upc' = "done"
    /\ ranBefore' = TRUE
    /\ UNCHANGED <<db, upg, version, ranSteps, atStart, resumed, stepsDone>>
    /\ UNCHANGED notUpgVars

\* the process dies between two steps or before the marker is written
Interrupt ==
    /\ upc = "steps"
    /\ ranSteps /= <<>>
    /\ upc' = "interrupted"
    /\ UNCHANGED <<backend_info, db, upg, version, ranSteps, atStart, ranBefore,
                   resumed, stepsDone>>
    /\ UNCHANGED notUpgVars

\* a schema delta goes through AlterRealm.apply and AlterRealm.execute: the
\* guarded bootstrap creations run, then update_backend_info() unless an op
\* before it raised
AlterRealmDelta ==
    /\ upc /= "steps"
    /\ db' = db \cup RealmBootstrap
    /\ \E reached \in BOOLEAN :
          backend_info' = IF reached THEN update_backend_info(backend_info)
                          ELSE backend_info
    /\ upc' = "idle"
    /\ ranBefore' = FALSE
    /\ UNCHANGED <<upg, version, ranSteps, atStart, resumed, stepsDone>>
    /\ UNCHANGED notUpgVars

NextUpgrade ==
    \/ Construct
    \/ ExecuteBegin
    \/ Step
    \/ Persist
    \/ Interrupt
    \/ AlterRealmDelta

SpecUpgrade == InitUpgrade /\ [][NextUpgrade]_vars

(***************************************************************************)
(* Claims about the backend upgrade chain.                                 *)
(***************************************************************************)
InRun == upc \in {"steps", "done", "failed", "interrupted"}

\* C5: an execute started from version p <= CURRENT runs the steps p+1,
\* p+2, ... in ascending order, each once, writes the format marker only
\* after the last step returned, and then the marker is CURRENT; from
\* p = CURRENT it runs no step.
C5_StepsAscendingThenPersist ==
    (InRun /\ atStart.actual <= BACKEND_FORMAT_VERSION) =>
        /\ ranSteps = [i \in 1..Len(ranSteps) |-> atStart.actual + i]
        /\ Len(ranSteps) <= BACKEND_FORMAT_VERSION - atStart.actual
        /\ upc /= "done" => backend_info = atStart.backend_info
        /\ upc = "done" =>
              /\ Len(ranSteps) = BACKEND_FORMAT_VERSION - atStart.actual
              /\ backend_info = {BACKEND_FORMAT_VERSION}

C5_Witness ==
    /\ upc = "done"
    /\ Len(ranSteps) >= 2
    /\ atStart.backend_info /= backend_info

\* C6: a second execute in a row from the same starting version changes
\* nothing: it does not fail, the physical objects and the format marker
\* stay as the first execute left them.
C6_SecondRunIsNoop ==
    (InRun /\ atStart.again) =>
        /\ upc /= "failed"
        /\ db = atStart.db
        /\ backend_info = atStart.backend_info

\* C7: an execute that follows an interrupted one, from the same persisted
\* version, succeeds: no step fails on state the interrupted run left, and
\* it ends in the backend state of the current format.
C7_ResumeSucceeds ==
    (InRun /\ resumed) =>
        /\ upc /= "failed"
        /\ upc = "done" => db = Deployed(BACKEND_FORMAT_VERSION)

\* C8: the stored format version is CURRENT only if every step 1..CURRENT
\* has run on the deployment; nothing writes CURRENT past a step not run.
C8_NoStepSkipped ==
    StoredVersion(backend_info) = BACKEND_FORMAT_VERSION =>
        \A n \in 1..BACKEND_FORMAT_VERSION : n \in stepsDone

\* C9: the stored format version never decreases, and an execute started
\* from a version above CURRENT runs no step and leaves the marker alone.
C9_VersionNeverDecreases ==
    [][/\ StoredVersion(backend_info') >= StoredVersion(backend_info)
       /\ (upc' \in {"steps", "done", "failed", "interrupted"}
             /\ atStart'.actual > BACKEND_FORMAT_VERSION) =>
               /\ ranSteps' = <<>>
               /\ backend_info' = atStart'.backend_info]_vars

C9_Witness ==
    /\ upc = "done"
    /\ atStart.actual > BACKEND_FORMAT_VERSION
    /\ backend_info = {BACKEND_FORMAT_VERSION + 1}

(***************************************************************************)
(* The table-alteration batcher of CompositePrototypeMetaCommand.          *)
(***************************************************************************)
\* common.get_table_name(ctx.proto): the table of the command's own object
ContextTable == "T1"
TableArgs == {"", "T1", "T2"}
BatchPriorities == {0, 3}

\* key = (object_name, priority, frozenset(cmdkwargs.items()))
MultiKeyNoPriority(object_name, prio, contained) == <<object_name, 0, contained>>
MultiKey(object_name, prio, contained) == <<object_name, prio, contained>>

\* tabname = table_name if table_name else self.table_name, else the context's
TabName(arg) ==
    IF arg /= "" THEN arg
    ELSE IF table_name /= "" THEN table_name
    ELSE ContextTable

\* what _get_multicommand does to self._multicommands and which command it
\* returns; a new command gets the next batch id
_get_multicommand(object_name, prio, force_new, manual, contained) ==
    LET key == MultiKey(object_name, prio, contained)
        commands == IF key \in DOMAIN multicommands THEN multicommands[key] ELSE <<>>
        fresh == Len(batches) + 1
    IN  IF commands = <<>> \/ force_new \/ manual
        THEN [command |-> fresh,
              created |-> TRUE,
              typecommands |->
                 IF manual THEN multicommands
                 ELSE [k \in (DOMAIN multicommands) \cup {key} |->
                          IF k = key THEN Append(commands, fresh)
                          ELSE multicommands[k]]]
        ELSE [command |-> commands[Len(commands)],
              created |-> FALSE,
              typecommands |-> multicommands]

InitBatch ==
    /\ SchedIdle
    /\ DeltaIdle
    /\ ConceptIdle
    /\ RulesIdle
    /\ MappingIdle
    /\ PointerIdle
    /\ UsersIdle
    /\ UpgradeIdle
    /\ BatchIdle
    /\ LinkIdle
    /\ BaseIdle
    /\ AtomIdle

\* get_alter_table(context, priority, force_new, contained, manual, table_name)
\* followed by the caller's alter_table.add_operation(...) on what it got
get_alter_table(prio, force_new, contained, manual, arg) ==
    /\ batch_state /= "returned"
    /\ Len(calls) < MaxCalls
    /\ LET tabname == TabName(arg)
           r == _get_multicommand(tabname, prio, force_new, manual, contained)
           subop == Len(calls) + 1
           made == IF r.created
                   THEN Append(batches, [table |-> tabname, priority |-> prio,
                                         contained |-> contained, ops |-> <<>>])
                   ELSE batches
       IN  /\ multicommands' = r.typecommands
           /\ batches' = [made EXCEPT ![r.command].ops = Append(@, subop)]
           /\ table_name' = IF arg = "" /\ table_name = "" THEN tabname ELSE table_name
           /\ calls' = Append(calls, [table |-> tabname, priority |-> prio,
                                      contained |-> contained,
                                      force_new |-> force_new, manual |-> manual,
                                      batch |-> r.command, subop |-> subop])
    /\ UNCHANGED <<attached, batch_state>>
    /\ UNCHANGED notBatchVars

NextBatch ==
    \E prio \in BatchPriorities, force_new \in BOOLEAN, contained \in BOOLEAN,
       manual \in BOOLEAN, arg \in TableArgs :
        get_alter_table(prio, force_new, contained, manual, arg)

SpecBatch == InitBatch /\ [][NextBatch]_vars

(***************************************************************************)
(* Claims about the batcher.                                               *)
(***************************************************************************)
PlainCall(c) == ~c.force_new /\ ~c.manual
SameIdentity(c, d) ==
    c.table = d.table /\ c.priority = d.priority /\ c.contained = d.contained

BuiltinLink == 0

Link(generic, base, atomic, singular, props, computable) ==
    [generic |-> generic, base |-> base, atomic |-> atomic, singular |-> singular,
     props |-> props, computable |-> computable]

LinkGeneric(l, ls) == l = BuiltinLink \/ ls[l].generic

\* link.children(schema): the links that name l as their base
LinkChildren(l, ls) == {c \in DOMAIN ls : ls[c].base = l}

\* link.descendants(schema): children, their children, and so on
RECURSIVE LinkDescendants(_, _)
LinkDescendants(l, ls) ==
    LET cs == LinkChildren(l, ls)
    IN  cs \cup UNION {LinkDescendants(c, ls) : c \in cs}

\* the chain of bases of l up to the builtin root
RECURSIVE LinkAncestors(_, _)
LinkAncestors(l, ls) ==
    IF l = BuiltinLink THEN {}
    ELSE {ls[l].base} \cup LinkAncestors(ls[l].base, ls)

\* types.get_pointer_storage_info(link).table_type of a specialized link
get_pointer_storage_info(link) ==
    IF link.atomic /\ link.singular /\ ~link.props THEN "concept" ELSE "link"

\* the last branch of has_table, for a specialized link
NonGenericHasTableIgnoringSingular(link) == ~link.atomic \/ link.props
NonGenericHasTable(link) == ~link.atomic \/ ~link.singular \/ link.props

has_table(l, ls) ==
    IF l /= BuiltinLink /\ ls[l].computable THEN FALSE
    ELSE IF LinkGeneric(l, ls)
         THEN IF l = BuiltinLink THEN TRUE
              ELSE IF ls[l].props THEN TRUE
              ELSE \E c \in LinkChildren(l, ls) :
                      /\ ~LinkGeneric(c, ls)
                      /\ get_pointer_storage_info(ls[c]) = "link"
    ELSE NonGenericHasTable(ls[l])

\* the tables _create_table(link, conditional=True) makes sure exist: the
\* link's, those of its bases, and those of the descendants that have one
_create_table(l, ls) ==
    {l} \cup LinkAncestors(l, ls) \cup {d \in LinkDescendants(l, ls) : has_table(d, ls)}

provide_table(l, ls) ==
    (IF ~LinkGeneric(l, ls) /\ has_table(ls[l].base, ls)
     THEN _create_table(ls[l].base, ls) ELSE {})
    \cup (IF has_table(l, ls) THEN _create_table(l, ls) ELSE {})

GenericLinks(ls) == {BuiltinLink} \cup {i \in DOMAIN ls : ls[i].generic}

NewLinks(ls) ==
    {Link(TRUE, b, FALSE, FALSE, p, c) :
        b \in GenericLinks(ls), p \in BOOLEAN, c \in BOOLEAN}
    \cup {Link(FALSE, b[1], b[2], b[3], b[4], b[5]) :
            b \in GenericLinks(ls) \X BOOLEAN \X BOOLEAN \X BOOLEAN \X BOOLEAN}

InitLinks ==
    /\ SchedIdle
    /\ DeltaIdle
    /\ ConceptIdle
    /\ RulesIdle
    /\ MappingIdle
    /\ PointerIdle
    /\ UsersIdle
    /\ UpgradeIdle
    /\ BatchIdle
    /\ LinkIdle
    /\ BaseIdle
    /\ AtomIdle

\* CreateLink.apply: the schema gets the link, then provide_table(link)
CreateLink(link) ==
    /\ Len(links) < MaxLinks
    /\ links' = Append(links, link)
    /\ linkTables' = linkTables \cup provide_table(Len(links) + 1, links')
    /\ UNCHANGED notLinkVars

NextLinks == \E link \in NewLinks(links) : CreateLink(link)

SpecLinks == InitLinks /\ [][NextLinks]_vars

(***************************************************************************)
(* Claims about link tables.                                               *)
(***************************************************************************)
SpecializedLinks == {l \in DOMAIN links : ~links[l].generic}

\* C11 as stated: a non-singular specialized link resolves to its own table
\* and has_table is true for it; an atomic, singular specialized link
\* without properties resolves to a column and has_table is false for it.
C11_NonSingularHasTable ==
    \A l \in SpecializedLinks :
        /\ ~links[l].singular =>
              /\ get_pointer_storage_info(links[l]) = "link"
              /\ has_table(l, links)
        /\ (links[l].atomic /\ links[l].singular /\ ~links[l].props) =>
              /\ get_pointer_storage_info(links[l]) = "concept"
              /\ ~has_table(l, links)

\* C11 amended: as above, but has_table is true for a non-singular
\* specialized link only when the link is not a pure computable; for a pure
\* computable has_table is false whatever the link's shape.
C11_NonSingularHasTableUnlessComputable ==
    \A l \in SpecializedLinks :
        /\ ~links[l].singular =>
              /\ get_pointer_storage_info(links[l]) = "link"
              /\ has_table(l, links) = ~links[l].computable
        /\ (links[l].atomic /\ links[l].singular /\ ~links[l].props) =>
              /\ get_pointer_storage_info(links[l]) = "concept"
              /\ ~has_table(l, links)

C11_Witness ==
    \E l, m \in SpecializedLinks :
        /\ ~links[l].singular /\ links[l].atomic /\ ~links[l].props
        /\ ~links[l].computable
        /\ has_table(l, links) /\ l \in linkTables
        /\ links[m].atomic /\ links[m].singular /\ ~links[m].props
        /\ ~has_table(m, links) /\ m \notin linkTables

\* C12: a generic link (not a pure computable) has a table as soon as one of
\* its specialized descendants, at any depth, needs a table of its own.
C12_GenericProvidesForDescendants ==
    \A g \in DOMAIN links :
        (links[g].generic /\ ~links[g].computable) =>
            \A d \in LinkDescendants(g, links) :
                (~links[d].generic /\ has_table(d, links)) => has_table(g, links)

(***************************************************************************)
(* The inheritance delta engine: apply_base_delta, and DeleteLink's column *)
(* drop.  Bases are named 1..MaxBases; base lists hold no base twice.      *)
(* Pointers "p" and "q" are atomic singular links (a column of a concept   *)
(* table), "m" is a non-atomic link (rows of its own table).               *)
(***************************************************************************)
BaseNames == 1..MaxBases
Pointers == {"p", "q", "m"}

\* the order in which a set of pointer names is iterated
PointerOrder(S) == SelectSeq(<<"m", "p", "q">>, LAMBDA ptr : ptr \in S)

\* base.pointers of each base of the schema
BasePointers(b) ==
    IF b % 3 = 1 THEN {"p"}
    ELSE IF b % 3 = 2 THEN {"p", "q"}
    ELSE {"q", "m"}

BaseLists ==
    UNION {{l \in [1..n -> BaseNames] : \A i, j \in 1..n : l[i] = l[j] => i = j} :
              n \in 0..MaxBases}

\* obj.pointers after acquire_ancestor_inheritance: own and inherited
PointersOf(obj) == obj.own \cup UNION {BasePointers(b) : b \in Range(obj.bases)}

\* ptr.atomic()
PtrAtomic(ptr) == ptr /= "m"

\* is_a_column: the pointer's storage is the table of the source itself
is_a_column(ptr, kind) ==
    IF kind = "concept" THEN PtrAtomic(ptr) ELSE TRUE

ColumnOp(op, ptr, cond) == [op |-> op, arg |-> ptr, cond |-> cond]

\* one operation of kind op, with condition cond, for each element of s
RECURSIVE OpsFor(_, _, _)
OpsFor(s, op, cond) ==
    IF s = <<>> THEN <<>>
    ELSE <<[op |-> op, arg |-> Head(s), cond |-> cond]>> \o OpsFor(Tail(s), op, cond)

\* itertools.takewhile(lambda x: x[0] == x[1], zip(current_bases, new_bases))
UnchangedOrderNone(current_bases, new_bases) == 0
RECURSIVE UnchangedOrder(_, _)
UnchangedOrder(current_bases, new_bases) ==
    IF current_bases = <<>> \/ new_bases = <<>> THEN 0
    ELSE IF Head(current_bases) /= Head(new_bases) THEN 0
    ELSE 1 + UnchangedOrder(Tail(current_bases), Tail(new_bases))

\* set(orig_source.pointers) - set(source.pointers)
DroppedPtrsIgnoringReinherited(orig_ptrs, new_ptrs) == orig_ptrs
DroppedPtrs(orig_ptrs, new_ptrs) == orig_ptrs \ new_ptrs

\* the two batches of the reordering: drop-parent batch, then add-parent batch
ReorderOpsAddFirst(old_base_order, new_base_order) ==
    OpsFor(new_base_order, "add_parent", "unless_inherits")
        \o OpsFor(old_base_order, "drop_parent", "if_inherits")
ReorderOps(old_base_order, new_base_order) ==
    OpsFor(old_base_order, "drop_parent", "if_inherits")
        \o OpsFor(new_base_order, "add_parent", "unless_inherits")

Drop1(s, n) == SubSeq(s, n + 1, Len(s))

\* the operations apply_base_delta adds to the source's AlterTable batches,
\* in the order the batches were made
apply_base_delta(orig, new, kind) ==
    IF kind = "link-notable" THEN <<>>
    ELSE
    LET dropped_bases == Range(orig.bases) \ Range(new.bases)
        inherited_aptrs ==
            {ptr \in UNION {BasePointers(b) : b \in Range(new.bases)} : PtrAtomic(ptr)}
        added_inh_ptrs == inherited_aptrs \ PointersOf(orig)
        add_columns ==
            OpsFor(PointerOrder({ptr \in added_inh_ptrs : is_a_column(ptr, kind)}),
                   "add_column", "unless_exists")
        bases_dropped == SelectSeq(orig.bases, LAMBDA b : b \in dropped_bases)
        drop_parents == OpsFor(bases_dropped, "drop_parent", "none")
        dropped_ptrs == DroppedPtrs(PointersOf(orig), PointersOf(new))
        drop_columns ==
            OpsFor(PointerOrder({ptr \in dropped_ptrs : is_a_column(ptr, kind)}),
                   "drop_column", "if_exists")
        current_bases == SelectSeq(orig.bases, LAMBDA b : b \notin dropped_bases)
        new_bases == new.bases
        unchanged_order == UnchangedOrder(current_bases, new_bases)
        old_base_order == Drop1(current_bases, unchanged_order)
        new_base_order == Drop1(new_bases, unchanged_order)
    IN  add_columns
        \o (IF dropped_bases /= {} THEN drop_parents \o drop_columns ELSE <<>>)
        \o (IF new_base_order /= <<>>
            THEN ReorderOps(old_base_order, new_base_order) ELSE <<>>)

\* the backend executes one parent operation on the table's parent list
ExecuteParentOp(op, ps) ==
    IF op.op = "drop_parent"
    THEN SelectSeq(ps, LAMBDA b : b /= op.arg)
    ELSE IF op.op = "add_parent" /\ op.arg \notin Range(ps)
    THEN Append(ps, op.arg)
    ELSE ps

RECURSIVE ExecuteParentOps(_, _)
ExecuteParentOps(ops, ps) ==
    IF ops = <<>> THEN ps
    ELSE ExecuteParentOps(Tail(ops), ExecuteParentOp(Head(ops), ps))

InitBases ==
    /\ SchedIdle
    /\ DeltaIdle
    /\ ConceptIdle
    /\ RulesIdle
    /\ MappingIdle
    /\ PointerIdle
    /\ UsersIdle
    /\ UpgradeIdle
    /\ BatchIdle
    /\ LinkIdle
    /\ AtomIdle
    /\ \E o \in BaseLists, n \in BaseLists, own \in SUBSET {"p", "m"} :
          /\ orig_source = [bases |-> o, own |-> own]
          /\ source = [bases |-> n, own |-> own]
    /\ source_kind \in {"concept", "link", "link-notable"}
    /\ base_ops = <<>>
    /\ parents = IF source_kind = "link-notable" THEN <<>> ELSE orig_source.bases
    /\ bd_state = "start"

\* RebaseConcept / RebaseLink: apply_base_delta(orig_source, source), and the
\* backend then runs what it emitted
ApplyBaseDelta ==
    /\ bd_state = "start"
    /\ base_ops' = apply_base_delta(orig_source, source, source_kind)
    /\ parents' = ExecuteParentOps(base_ops', parents)
    /\ bd_state' = "rebased"
    /\ UNCHANGED <<orig_source, source, source_kind>>
    /\ UNCHANGED notBaseVars

\* DeleteLink.apply for the concept's own specialized link ptr: the schema
\* drops the link from the concept, then the column goes unless the name is
\* still among the concept's pointers
DeleteLink(ptr) ==
    /\ bd_state = "start"
    /\ source_kind = "concept"
    /\ ptr \in source.own
    /\ source' = [source EXCEPT !.own = @ \ {ptr}]
    /\ base_ops' =
          (IF PtrAtomic(ptr) /\ ptr \notin PointersOf(source')
           THEN <<ColumnOp("drop_column", ptr, "if_exists")>> ELSE <<>>)
          \o <<[op |-> "drop_table", arg |-> ptr, cond |-> "if_exists"],
               [op |-> "delete_row", arg |-> ptr, cond |-> "none"]>>
    /\ bd_state' = "deleted"
    /\ UNCHANGED <<orig_source, source_kind, parents>>
    /\ UNCHANGED notBaseVars

NextBases ==
    \/ ApplyBaseDelta
    \/ \E ptr \in Pointers : DeleteLink(ptr)

SpecBases == InitBases /\ [][NextBases]_vars

(***************************************************************************)
(* Claims about the inheritance delta engine.                              *)
(***************************************************************************)
OpArgs(kind) == {base_ops[i].arg : i \in {j \in DOMAIN base_ops : base_ops[j].op = kind}}
OpSeq(kind) ==
    LET sel == SelectSeq(base_ops, LAMBDA o : o.op = kind)
    IN  [i \in DOMAIN sel |-> sel[i].arg]
HasOwnTable == source_kind /= "link-notable"

\* C13: with identical old and new base lists apply_base_delta emits no
\* add-parent and no drop-parent operation.
C13_IdenticalBasesNoParentOps ==
    (bd_state = "rebased" /\ orig_source.bases = source.bases) =>
        \A i \in DOMAIN base_ops : base_ops[i].op \notin {"add_parent", "drop_parent"}

C13_Witness ==
    /\ bd_state = "rebased"
    /\ HasOwnTable
    /\ orig_source.bases = source.bases
    /\ Len(source.bases) >= 2
    /\ parents = source.bases

\* the length of the longest common prefix of two lists, and the divergent
\* suffix of the first after it
CommonPrefixLen(s, t) ==
    CHOOSE k \in 0..Len(s) :
        /\ k <= Len(t)
        /\ \A i \in 1..k : s[i] = t[i]
        /\ (k < Len(s) /\ k < Len(t)) => s[k + 1] /= t[k + 1]
SuffixAfterPrefix(s, t) == SubSeq(s, CommonPrefixLen(s, t) + 1, Len(s))
DropsBeforeAdds ==
    \A i, j \in DOMAIN base_ops :
        (base_ops[i].op = "drop_parent" /\ base_ops[j].op = "add_parent") => i < j

\* C14 as stated: with O and N the old and new base lists, the drop-parent
\* operations are those of the suffix of O after the longest common prefix
\* of O and N, the add-parent operations those of the suffix of N, drops
\* come before adds, and the table's parents end up being N.
C14_PrefixOfOldAndNew ==
    (bd_state = "rebased" /\ HasOwnTable) =>
        /\ OpSeq("drop_parent") = SuffixAfterPrefix(orig_source.bases, source.bases)
        /\ OpSeq("add_parent") = SuffixAfterPrefix(source.bases, orig_source.bases)
        /\ DropsBeforeAdds
        /\ parents = source.bases

\* C14 amended: a drop-parent is emitted for each base of O that is not in
\* N; with O' the rest of O, the longest common prefix of O' and N is left
\* untouched, a drop-parent is emitted for each base of the suffix of O' and
\* an add-parent for each base of the suffix of N, every drop-parent before
\* every add-parent, and the table's parents end up being N.
C14_PrefixOfRemainingAndNew ==
    (bd_state = "rebased" /\ HasOwnTable) =>
        LET gone == Range(orig_source.bases) \ Range(source.bases)
            rest == SelectSeq(orig_source.bases, LAMBDA b : b \notin gone)
            k == CommonPrefixLen(rest, source.bases)
        IN  /\ OpArgs("drop_parent") = gone \cup Range(SuffixAfterPrefix(rest, source.bases))
            /\ Len(OpSeq("drop_parent")) = Cardinality(OpArgs("drop_parent"))
            /\ OpSeq("add_parent") = SuffixAfterPrefix(source.bases, rest)
            /\ \A i \in 1..k :
                  source.bases[i] \notin OpArgs("drop_parent") \cup OpArgs("add_parent")
            /\ DropsBeforeAdds
            /\ parents = source.bases

C14_Witness ==
    /\ bd_state = "rebased"
    /\ HasOwnTable
    /\ Range(orig_source.bases) \ Range(source.bases) /= {}
    /\ CommonPrefixLen(orig_source.bases, source.bases) >= 1
    /\ OpArgs("add_parent") /= {}
    /\ OpArgs("drop_parent") /= {}
    /\ parents = source.bases

\* C15: a column is dropped exactly for the pointers stored as a column of
\* the source that were among its pointers before and are not afterwards; a
\* pointer still inherited from a remaining base keeps its column, in
\* apply_base_delta and in DeleteLink.
C15_DropOnlyUnreachableColumns ==
    /\ (bd_state = "rebased" /\ HasOwnTable) =>
          OpArgs("drop_column") =
              {ptr \in PointersOf(orig_source) :
                  is_a_column(ptr, source_kind) /\ ptr \notin PointersOf(source)}
    /\ bd_state = "deleted" =>
          OpArgs("drop_column") =
              {ptr \in orig_source.own \ source.own :
                  is_a_column(ptr, source_kind) /\ ptr \notin PointersOf(source)}

C15_Witness ==
    /\ bd_state = "rebased"
    /\ source_kind = "concept"
    /\ OpArgs("drop_column") = {"q"}
    /\ "p" \in PointersOf(source)
    /\ "p" \notin source.own
    /\ \E b \in Range(orig_source.bases) \ Range(source.bases) : "p" \in BasePointers(b)

C15_WitnessDeleteLink ==
    /\ bd_state = "deleted"
    /\ "p" \in orig_source.own \ source.own
    /\ "p" \in PointersOf(source)
    /\ OpArgs("drop_column") = {}

(***************************************************************************)
(* The atom type migration: AlterAtom.alter_atom and                       *)
(* AtomMetaCommand.alter_atom_type.  Atoms are numbered in schema order;   *)
(* atoms[a] is the list of bases of atom a (atoms defined before it).      *)
(***************************************************************************)
BaseTypes == {"int16", "int32"}
Intents == {"create", "alter", "drop"}

\* the physical operations of the migration; temp tells the domain with the
\* temporary name from the one with the atom's name
AtomOp(op, atom, temp, prio) == [op |-> op, atom |-> atom, temp |-> temp, prio |-> prio]
RenameDomain(atom) == AtomOp("RenameDomain", atom, FALSE, 0)
CreateDomain(atom) == AtomOp("CreateDomain", atom, FALSE, 0)
ConstraintCreate(atom) == AtomOp("ConstraintCreate", atom, FALSE, 1)
AlterColumnType(atom) == AtomOp("AlterTableAlterColumnType", atom, FALSE, 0)
DropDomain(atom, temp) == AtomOp("DropDomain", atom, temp, 0)
AlterDomainAlterDefault(atom) == AtomOp("AlterDomainAlterDefault", atom, FALSE, 0)

Repeat(op, n) == [i \in 1..n |-> op]

AtomLists(a) ==
    UNION {{l \in [1..n -> 1..(a - 1)] : \A i, j \in 1..n : l[i] = l[j] => i = j} :
              n \in 0..2}

\* [b.name for b in child_atom.bases] == [atom.name]
IsChildAtom(bases, atom) == bases = <<atom>>

\* the free name simple_alter is bound nowhere: reading it raises NameError
simple_alter_is_bound == FALSE

\* alter_atom_type(atom, schema, new_type, intent): the operations added to
\* self.pgops, and whether the call raised
RECURSIVE alter_atom_type(_, _, _, _, _)
RECURSIVE AlterChildAtoms(_, _, _, _, _)
AlterChildAtoms(child, atom, schm, usrs, cons) ==
    IF child > Len(schm) THEN [ops |-> <<>>, raised |-> FALSE]
    ELSE IF IsChildAtom(schm[child], atom)
    THEN LET r == alter_atom_type(child, "alter", schm, usrs, cons)
         IN  IF r.raised THEN r
             ELSE LET rest == AlterChildAtoms(child + 1, atom, schm, usrs, cons)
                  IN  [ops |-> r.ops \o rest.ops, raised |-> rest.raised]
    ELSE AlterChildAtoms(child + 1, atom, schm, usrs, cons)

alter_atom_type(atom, intent, schm, usrs, cons) ==
    LET first == IF intent = "alter"
                 THEN <<RenameDomain(atom), CreateDomain(atom)>>
                          \o Repeat(ConstraintCreate(atom), cons[atom])
                 ELSE IF intent = "create" THEN <<CreateDomain(atom)>>
                 ELSE <<>>
        columns == Repeat(AlterColumnType(atom), usrs[atom])
        children == AlterChildAtoms(1, atom, schm, usrs, cons)
        sofar == first \o columns \o children.ops
    IN  IF children.raised THEN [ops |-> sofar, raised |-> TRUE]
        ELSE IF intent = "drop"
        THEN [ops |-> Append(sofar, DropDomain(atom, FALSE)), raised |-> FALSE]
        ELSE IF intent = "alter"
        THEN IF ~simple_alter_is_bound THEN [ops |-> sofar, raised |-> TRUE]
             ELSE [ops |-> Append(sofar, DropDomain(atom, TRUE)), raised |-> FALSE]
        ELSE [ops |-> sofar, raised |-> FALSE]

\* if not new_type and old_base != base: new_type = base
BaseChangedAlways(old_base, base) == TRUE
BaseChanged(old_base, base) == old_base /= base

\* AlterAtom.alter_atom(op, schema, context, old_atom, new_atom, in_place, updates)
alter_atom(atom, old_base, base, in_place, default_delta, schm, usrs, cons) ==
    LET migrate == BaseChanged(old_base, base) /\ in_place
        r == IF migrate THEN alter_atom_type(atom, "alter", schm, usrs, cons)
             ELSE [ops |-> <<>>, raised |-> FALSE]
    IN  IF r.raised THEN r
        ELSE [ops |-> r.ops \o (IF default_delta
                                 THEN <<AlterDomainAlterDefault(atom)>> ELSE <<>>),
              raised |-> FALSE]

\* AlterRealm.serialize_ops on these operations: ascending priority, each
\* priority in the order of insertion
ScheduledByPriority(ops) ==
    SelectSeq(ops, LAMBDA o : o.prio = 0) \o SelectSeq(ops, LAMBDA o : o.prio = 1)

InitAtoms ==
    /\ SchedIdle
    /\ DeltaIdle
    /\ ConceptIdle
    /\ RulesIdle
    /\ MappingIdle
    /\ PointerIdle
    /\ UsersIdle
    /\ UpgradeIdle
    /\ BatchIdle
    /\ LinkIdle
    /\ BaseIdle
    /\ atoms \in {l \in [1..MaxAtoms -> UNION {AtomLists(a) : a \in 1..MaxAtoms}] :
                    \A a \in 1..MaxAtoms : l[a] \in AtomLists(a)}
    /\ users \in [1..MaxAtoms -> 0..1]
    /\ local_constraints \in [1..MaxAtoms -> 0..1]
    /\ atom_call = [fn |-> "none"]
    /\ atom_pgops = <<>>
    /\ atom_state = "start"

\* AlterAtom.apply reaches alter_atom; old_base is "int16"
AlterAtom(atom, base, in_place, default_delta) ==
    /\ atom_state = "start"
    /\ LET r == alter_atom(atom, "int16", base, in_place, default_delta,
                           atoms, users, local_constraints)
       IN  /\ atom_pgops' = r.ops
           /\ atom_state' = IF r.raised THEN "raised" ELSE "returned"
    /\ atom_call' = [fn |-> "alter_atom", atom |-> atom, changed |-> base /= "int16",
                     in_place |-> in_place, default_delta |-> default_delta,
                     intent |-> "alter"]
    /\ UNCHANGED <<atoms, users, local_constraints>>
    /\ UNCHANGED notAtomVars

\* a direct call of alter_atom_type with one of the three intents
AlterAtomType(atom, intent) ==
    /\ atom_state = "start"
    /\ LET r == alter_atom_type(atom, intent, atoms, users, local_constraints)
       IN  /\ atom_pgops' = r.ops
           /\ atom_state' = IF r.raised THEN "raised" ELSE "returned"
    /\ atom_call' = [fn |-> "alter_atom_type", atom |-> atom, changed |-> TRUE,
                     in_place |-> TRUE, default_delta |-> FALSE, intent |-> intent]
    /\ UNCHANGED <<atoms, users, local_constraints>>
    /\ UNCHANGED notAtomVars

NextAtoms ==
    \/ \E atom \in 1..MaxAtoms, base \in BaseTypes, in_place \in BOOLEAN,
          default_delta \in BOOLEAN :
            AlterAtom(atom, base, in_place, default_delta)
    \/ \E atom \in 1..MaxAtoms, intent \in Intents : AlterAtomType(atom, intent)

SpecAtoms == InitAtoms /\ [][NextAtoms]_vars

(***************************************************************************)
(* Claims about the atom type migration.                                   *)
(***************************************************************************)
Called == atom_state /= "start"
OpIndexes(op) == {i \in DOMAIN atom_pgops : atom_pgops[i] = op}
MigrationOps ==
    {"RenameDomain", "CreateDomain", "ConstraintCreate", "AlterTableAlterColumnType",
     "DropDomain"}
\* the atoms that list atom a among their bases
DirectChildren(a) == {c \in DOMAIN atoms : a \in Range(atoms[c])}

\* C16: alter_atom on an atom whose base type did not change returns and
\* emits no domain rename, create or drop, no constraint and no column type
\* alteration; without a change of default it emits nothing at all.
C16_UnchangedBaseNoMigration ==
    (Called /\ atom_call.fn = "alter_atom" /\ ~atom_call.changed) =>
        /\ atom_state = "returned"
        /\ \A i \in DOMAIN atom_pgops : atom_pgops[i].op \notin MigrationOps
        /\ ~atom_call.default_delta => atom_pgops = <<>>

C16_Witness ==
    /\ Called
    /\ atom_call.fn = "alter_atom"
    /\ ~atom_call.changed
    /\ atom_call.in_place
    /\ users[atom_call.atom] = 1
    /\ DirectChildren(atom_call.atom) /= {}
    /\ atom_pgops = <<>>

\* C17: a type change of an atom used by one column and with one child atom
\* completes, and its operations hold, in this order: the rename of the
\* domain, the creation of the new domain, the column type alteration, the
\* alteration of the child's domain, the drop of the temporary old domain.
C17_TypeChangeCompletesInOrder ==
    (/\ Called
     /\ atom_call.intent = "alter" /\ atom_call.changed /\ atom_call.in_place
     /\ users[atom_call.atom] = 1
     /\ \E c \in DOMAIN atoms :
           /\ DirectChildren(atom_call.atom) = {c}
           /\ atoms[c] = <<atom_call.atom>>)
    => /\ atom_state = "returned"
       /\ \E i, j, k, l, n \in DOMAIN atom_pgops :
             /\ i < j /\ j < k /\ k < l /\ l < n
             /\ atom_pgops[i] = RenameDomain(atom_call.atom)
             /\ atom_pgops[j] = CreateDomain(atom_call.atom)
             /\ atom_pgops[k] = AlterColumnType(atom_call.atom)
             /\ atom_pgops[l].atom \in DirectChildren(atom_call.atom)
             /\ atom_pgops[n] = DropDomain(atom_call.atom, TRUE)

\* C18: in the priority-scheduled order of the operations of a type change,
\* every constraint of the atom is attached to the new domain before any of
\* the atom's columns is altered and before the temporary domain is dropped.
C18_ConstraintsBeforeColumns ==
    (Called /\ atom_call.intent = "alter" /\ atom_call.changed /\ atom_call.in_place) =>
        LET sched == ScheduledByPriority(atom_pgops)
        IN  \A i, j \in DOMAIN sched :
                (/\ sched[i] = ConstraintCreate(atom_call.atom)
                 /\ sched[j] \in {AlterColumnType(atom_call.atom),
                                  DropDomain(atom_call.atom, TRUE)})
                => i < j

\* C19: alter_atom_type with intent 'create' returns having emitted the
\* creation of the atom's domain and nothing else.
C19_CreateOnlyCreatesDomain ==
    (Called /\ atom_call.fn = "alter_atom_type" /\ atom_call.intent = "create") =>
        /\ atom_state = "returned"
        /\ atom_pgops = <<CreateDomain(atom_call.atom)>>

\* the direct children of a, their direct children, and so on
RECURSIVE AtomDescendants(_)
AtomDescendants(a) ==
    DirectChildren(a) \cup UNION {AtomDescendants(c) : c \in DirectChildren(a)}

\* C20: a type change of an atom with one direct child atom alters the
\* domain of that child, also when the child lists further bases, and
\* touches the domain of no atom that is neither the atom nor below it.
C20_RecursesIntoDirectChildren ==
    (/\ Called
     /\ atom_call.changed /\ atom_call.in_place
     /\ Cardinality(DirectChildren(atom_call.atom)) = 1)
    => /\ \A c \in DirectChildren(atom_call.atom) : OpIndexes(RenameDomain(c)) /= {}
       /\ \A i \in DOMAIN atom_pgops :
             atom_pgops[i].atom \in {atom_call.atom} \cup AtomDescendants(atom_call.atom)

(***************************************************************************)
(* The columns alter_atom_type migrates.  A pointer with an atom target is *)
(* a link of the one concept of this schema or a property of a link; the   *)
(* pointer's position in schema_pointers stands for its name.              *)
(***************************************************************************)
AtomNames == {"a", "b"}

Pointer(kind, target, singular, props) ==
    [kind |-> kind, target |-> target, singular |-> singular, props |-> props]

NewPointers ==
    {Pointer("link", t, s, p) : t \in AtomNames, s \in BOOLEAN, p \in BOOLEAN}
    \cup {Pointer("link_property", t, TRUE, FALSE) : t \in AtomNames}

\* the column that stores the pointer: a column of the source concept's
\* table, or a column of a link table (the link's own for a link stored in
\* its table, the source link's for a link property)
StoredColumn(i, ptrs) ==
    IF ptrs[i].kind = "link"
    THEN [table |-> get_pointer_storage_info(
                        Link(FALSE, BuiltinLink, TRUE, ptrs[i].singular,
                             ptrs[i].props, FALSE)),
          column |-> i]
    ELSE [table |-> "link", column |-> i]

\* users: the links of the schema whose target is the atom
AtomUsers(atom, ptrs) ==
    SelectSeq([i \in DOMAIN ptrs |-> i],
              LAMBDA i : ptrs[i].kind = "link" /\ ptrs[i].target = atom)

\* the AlterTable(get_table_name(host_proto)) with one
\* AlterTableAlterColumnType(normal_name) emitted for a user
UserAlterColumnType(i) == [table |-> "concept", column |-> i]

\* the loop of alter_atom_type over users
AlterUserColumns(atom, ptrs) ==
    [k \in DOMAIN AtomUsers(atom, ptrs) |-> UserAlterColumnType(AtomUsers(atom, ptrs)[k])]

InitUsers ==
    /\ SchedIdle
    /\ DeltaIdle
    /\ ConceptIdle
    /\ RulesIdle
    /\ MappingIdle
    /\ PointerIdle
    /\ UpgradeIdle
    /\ BatchIdle
    /\ LinkIdle
    /\ BaseIdle
    /\ AtomIdle
    /\ UsersIdle

\* the schema gets one more pointer before the atom is altered
AddPointer(ptr) ==
    /\ atu_state = "start"
    /\ Len(schema_pointers) < MaxLinks
    /\ schema_pointers' = Append(schema_pointers, ptr)
    /\ UNCHANGED <<atu_atom, atu_ops, atu_state>>
    /\ UNCHANGED notUserVars

\* alter_atom_type(atom, ...): the column alterations it adds to self.pgops
AlterAtomTypeColumns(atom) ==
    /\ atu_state = "start"
    /\ atu_atom' = atom
    /\ atu_ops' = AlterUserColumns(atom, schema_pointers)
    /\ atu_state' = "returned"
    /\ UNCHANGED schema_pointers
    /\ UNCHANGED notUserVars

NextUsers ==
    \/ \E ptr \in NewPointers : AddPointer(ptr)
    \/ \E atom \in AtomNames : AlterAtomTypeColumns(atom)

SpecUsers == InitUsers /\ [][NextUsers]_vars

(***************************************************************************)
(* Claims about the migrated columns.                                      *)
(***************************************************************************)
ColumnsOfType(atom) ==
    {StoredColumn(i, schema_pointers) :
        i \in {j \in DOMAIN schema_pointers : schema_pointers[j].target = atom}}

\* C21: an atom type change emits a column type alteration for every column
\* whose type is the old domain, columns of concept tables and link property
\* columns of link tables alike, and for nothing else.
C21_AltersExactlyColumnsOfType ==
    atu_state = "returned" => Range(atu_ops) = ColumnsOfType(atu_atom)

(***************************************************************************)
(* Storage adjustment of an altered pointer: adjust_pointer_storage for a  *)
(* link, alter_host_table_column for a link property.  Targets "a" and "b" *)
(* are atoms, "C" is a concept.                                            *)
(***************************************************************************)
Targets == {"a", "b", "C"}
IsAtom(t) == t \in AtomNames

AtomCmd(kind, name, new_name) == [kind |-> kind, name |-> name, new_name |-> new_name]

\* the atom commands the scan over self(s_atoms.AtomCommand) can meet:
\* an AlterAtom holding a RenameAtom, a CreateAtom, a DeleteAtom
AtomCommands ==
    {AtomCmd("rename", n[1], n[2]) : n \in {<<"a", "b">>, <<"b", "a">>}}
    \cup {AtomCmd("create", n, n) : n \in AtomNames}
    \cup {AtomCmd("delete", n, n) : n \in AtomNames}

\* a pointer with a concept target is stored in a link table
PointerInputs ==
    {i \in [old_target : Targets, new_target : Targets,
            old_table : {"concept", "link"}, new_table : {"concept", "link"},
            atom_cmds : SUBSET AtomCommands] :
        /\ (~IsAtom(i.old_target) => i.old_table = "link")
        /\ (~IsAtom(i.new_target) => i.new_table = "link")}

\* the scan for a RenameAtom old -> new or a CreateAtom of the new target
MereRenameOnly(old, new, cmds) == AtomCmd("rename", old, new) \in cmds
MereRenameOrCreate(old, new, cmds) ==
    \/ AtomCmd("rename", old, new) \in cmds
    \/ AtomCmd("create", new, new) \in cmds

type_change_ok(in) ==
    /\ (in.old_target /= in.new_target \/ in.old_table /= in.new_table)
    /\ MereRenameOrCreate(in.old_target, in.new_target, in.atom_cmds)

\* "move" is the CommandGroup(priority=1) that drops the column from one
\* table and adds it to the other; "alter_atom" the call of
\* AlterAtom.alter_atom(in_place=False)
adjust_pointer_storage(in) ==
    IF in.old_target = in.new_target /\ in.old_table = in.new_table THEN <<>>
    ELSE IF in.old_table /= in.new_table THEN <<"move">>
    ELSE IF in.old_target /= in.new_target /\ ~type_change_ok(in)
              /\ IsAtom(in.old_target)
         THEN <<"alter_atom", "AlterTableAlterColumnType">>
    ELSE <<>>

alter_host_table_column(in) ==
    IF MereRenameOrCreate(in.old_target, in.new_target, in.atom_cmds) THEN <<>>
    ELSE IF IsAtom(in.new_target)
         THEN IF IsAtom(in.old_target)
              THEN <<"alter_atom", "AlterTableAlterColumnType">>
              ELSE <<"AlterTableAddColumn">>
    ELSE <<"AlterTableDropColumn">>

InitPointer ==
    /\ SchedIdle
    /\ DeltaIdle
    /\ ConceptIdle
    /\ RulesIdle
    /\ MappingIdle
    /\ UpgradeIdle
    /\ BatchIdle
    /\ LinkIdle
    /\ BaseIdle
    /\ AtomIdle
    /\ UsersIdle
    /\ ptr_in \in PointerInputs
    /\ ptr_call = "none"
    /\ ptr_ops = <<>>

\* AlterLink.apply of a specialized link reaches adjust_pointer_storage
AdjustPointerStorage ==
    /\ ptr_call = "none"
    /\ ptr_call' = "adjust_pointer_storage"
    /\ ptr_ops' = adjust_pointer_storage(ptr_in)
    /\ UNCHANGED ptr_in
    /\ UNCHANGED notPtrVars

\* AlterLinkProperty.apply with an altered target reaches
\* alter_host_table_column; a link property stays in its link table
AlterHostTableColumn ==
    /\ ptr_call = "none"
    /\ ptr_in.old_table = "link" /\ ptr_in.new_table = "link"
    /\ ptr_call' = "alter_host_table_column"
    /\ ptr_ops' = alter_host_table_column(ptr_in)
    /\ UNCHANGED ptr_in
    /\ UNCHANGED notPtrVars

NextPointer == AdjustPointerStorage \/ AlterHostTableColumn

SpecPointer == InitPointer /\ [][NextPointer]_vars

(***************************************************************************)
(* Claims about the storage adjustment.                                    *)
(***************************************************************************)
TargetAtomChangesWithRenameOrCreate ==
    /\ ptr_call /= "none"
    /\ IsAtom(ptr_in.old_target) /\ IsAtom(ptr_in.new_target)
    /\ ptr_in.old_target /= ptr_in.new_target
    /\ \/ AtomCmd("rename", ptr_in.old_target, ptr_in.new_target) \in ptr_in.atom_cmds
       \/ AtomCmd("create", ptr_in.new_target, ptr_in.new_target) \in ptr_in.atom_cmds

\* C22: when a pointer's target atom changes and the delta holds a RenameAtom
\* from the old target to the new one, or a CreateAtom of the new target, no
\* column type alteration and no column move is emitted for the pointer.
C22_NoAlterationNoMove ==
    TargetAtomChangesWithRenameOrCreate
        => /\ "AlterTableAlterColumnType" \notin Range(ptr_ops)
           /\ "move" \notin Range(ptr_ops)

\* C22 (amended): under the same condition no column type alteration and no
\* atom migration is emitted, and a column move is emitted exactly when the
\* pointer's storage changes table at the same time.
C22_NoAlterationMoveOnlyOnStorageChange ==
    TargetAtomChangesWithRenameOrCreate
        => /\ "AlterTableAlterColumnType" \notin Range(ptr_ops)
           /\ "alter_atom" \notin Range(ptr_ops)
           /\ ("move" \in Range(ptr_ops) <=> ptr_in.old_table /= ptr_in.new_table)

C22_Witness ==
    /\ TargetAtomChangesWithRenameOrCreate
    /\ ptr_call = "adjust_pointer_storage"
    /\ ptr_in.old_table = ptr_in.new_table
    /\ AtomCmd("rename", ptr_in.old_target, ptr_in.new_target) \in ptr_in.atom_cmds
    /\ ptr_ops = <<>>

(***************************************************************************)
(* Mapping indexes.  Links "L" and "K" have a table each; "M" is a link    *)
(* the delta leaves alone and that an existing index set may cover as      *)
(* well.  An existing index set is named by its mapping: its index names   *)
(* are <key>_<side><mapping>_link_mapping_idx, one per side.  The index    *)
(* data of a table is what the backend holds: the two characters in front  *)
(* of _link_mapping_idx in the name ("none": the table has no such index,  *)
(* "unmatched": the name does not fit the pattern), the link ids of the    *)
(* predicate ("X" is an id of no link the schema knows) and whether the    *)
(* predicate fits the pattern at all.                                      *)
(***************************************************************************)
Mappings == {"11", "1*", "*1", "**"}
MappingOrder == <<"11", "1*", "*1", "**">>
LinkNames == {"L", "K"}
LinkOrder == <<"L", "K">>
NoIndex == [mapping |-> "none", links |-> {}]
IndexData(mapping, lnks, predicate) ==
    [mapping |-> mapping, links |-> lnks, predicate |-> predicate]

\* context._get_link_map(reverse=True): the ids of the links of the schema
link_map == {"L", "K", "M"}

\* UpdateMappingIndexes.interpret_index: SchemaError for a name or a
\* predicate that does not match, ids of unknown links are passed over
interpret_index_lenient(index) ==
    [raised |-> FALSE,
     index |-> IF index.mapping \in {"11", "1*", "*1", "**"} /\ index.predicate = "parsed"
               THEN [mapping |-> index.mapping, links |-> index.links \cap link_map]
               ELSE NoIndex]
interpret_index(index) ==
    IF index.mapping \notin {"11", "1*", "*1", "**"}
    THEN [raised |-> TRUE, index |-> NoIndex]
    ELSE IF index.predicate /= "parsed"
    THEN [raised |-> TRUE, index |-> NoIndex]
    ELSE [raised |-> FALSE,
          index |-> [mapping |-> index.mapping, links |-> index.links \cap link_map]]

\* `existing = indexes.get(table_name)` and `dict(existing)`: the index data
\* of a table is interpreted when a link of the table is worked on
ExistingIndexes(index) ==
    IF index.mapping = "none" THEN [raised |-> FALSE, index |-> NoIndex]
    ELSE interpret_index(index)

\* CreateMappingIndexes.__init__: the sides that get a unique index
sidesSwapped(mapping) ==
    IF mapping = "11" THEN <<"source", "target">>
    ELSE IF mapping = "1*" THEN <<"source">>
    ELSE IF mapping = "*1" THEN <<"target">>
    ELSE <<>>
sides(mapping) ==
    IF mapping = "11" THEN <<"source", "target">>
    ELSE IF mapping = "1*" THEN <<"target">>
    ELSE IF mapping = "*1" THEN <<"source">>
    ELSE <<>>

PhysicalOp(op, table, side, mapping, maplinks, prio) ==
    [op |-> op, table |-> table, side |-> side, mapping |-> mapping,
     links |-> maplinks, priority |-> prio]

\* the pgops of CreateMappingIndexes: one CreateIndex(priority=3) per side
CreateMappingIndexes(table, mapping, maplinks) ==
    [k \in 1..Len(sides(mapping)) |->
        PhysicalOp("CreateIndex", table, sides(mapping)[k], mapping, maplinks, 3)]

\* the pgops of DropMappingIndexes: one group (priority=3) of DropIndex, one
\* per name in idx_names; idx_names are the names of the set of mapping idx
DropMappingIndexes(idx, table, mapping) ==
    <<PhysicalOp("DropIndexes", table, "", idx, {}, 3)>>

AlterMappingIndexes(idx, table, mapping, maplinks) ==
    DropMappingIndexes(idx, table, mapping)
    \o CreateMappingIndexes(table, mapping, maplinks)

RealmCommand(cmd, table, mapping, maplinks, idx, ops) ==
    [cmd |-> cmd, table |-> table, mapping |-> mapping, links |-> maplinks,
     idx |-> idx, ops |-> ops]

\* an entry of new_indexes / alter_indexes:
\* (proto.name, op.old_link.name, ex_idx_names)
MapItem(name, old, ex) == [name |-> name, old |-> old, ex |-> ex]

MappingQueues == [m \in Mappings |-> <<>>]

\* list.remove(item): drops the first occurrence
RemoveFirst(s, x) ==
    LET i == CHOOSE j \in DOMAIN s : s[j] = x /\ \A k \in 1..(j - 1) : s[k] /= x
    IN  SubSeq(s, 1, i - 1) \o SubSeq(s, i + 1, Len(s))

\* `not ex_idx or ex_idx[0] != proto.mapping`
NeedsIndexAlways(ex, mapping) == TRUE
NeedsIndex(ex, mapping) == ex.mapping = "none" \/ ex.mapping /= mapping

\* one round of `for op, proto in ops`; st.processed is processed.get(name)
ProcessOp(st, op, link, ex) ==
    IF st.raised THEN st
    ELSE IF op.cmd = "CreateLink"
    THEN IF st.processed /= ""
         THEN [st EXCEPT !.raised = TRUE]
         ELSE [st EXCEPT !.new[op.mapping] = Append(@, MapItem(link, "", "none")),
                         !.processed = op.mapping]
    ELSE IF op.cmd = "DeleteLink"
    THEN [st EXCEPT !.processed = op.mapping]
    ELSE LET has == ex.mapping /= "none"
             item == MapItem(link, link, ex.mapping)
             que == IF has THEN st.alter ELSE st.new
             q1 == IF st.processed /= ""
                   THEN IF st.processed /= op.mapping
                        THEN LET removed == [que EXCEPT ![st.processed] =
                                                 RemoveFirst(@, item)]
                             IN  IF NeedsIndex(ex, op.mapping)
                                 THEN [removed EXCEPT ![op.mapping] = Append(@, item)]
                                 ELSE removed
                        ELSE que
                   ELSE IF NeedsIndex(ex, op.mapping)
                        THEN [que EXCEPT ![op.mapping] = Append(@, item)]
                        ELSE que
             fails == /\ st.processed /= ""
                      /\ st.processed /= op.mapping
                      /\ item \notin Range(que[st.processed])
         IN  IF fails THEN [st EXCEPT !.raised = TRUE]
             ELSE IF has
                  THEN [st EXCEPT !.alter = q1, !.processed = op.mapping]
                  ELSE [st EXCEPT !.new = q1, !.processed = op.mapping]

RECURSIVE ProcessOps(_, _, _, _)
ProcessOps(st, ops, link, ex) ==
    IF ops = <<>> THEN st
    ELSE ProcessOps(ProcessOp(st, Head(ops), link, ex), Tail(ops), link, ex)

\* `for mapping, maplinks in new_indexes.items()`
NewIndexCommands(new, table) ==
    Concat([k \in 1..Len(MappingOrder) |->
        LET mapping == MappingOrder[k]
            maplinks == {new[mapping][i].name : i \in DOMAIN new[mapping]}
        IN  IF new[mapping] /= <<>>
            THEN <<RealmCommand("CreateMappingIndexes", table, mapping, maplinks, "",
                                CreateMappingIndexes(table, mapping, maplinks))>>
            ELSE <<>>])

\* `for mapping, maplinks in alter_indexes.items()`: the moved links get
\* their index, the set they leave is dropped or dropped and recreated
AlterIndexCommands(alter, table, ex) ==
    Concat([k \in 1..Len(MappingOrder) |->
        LET mapping == MappingOrder[k]
            maplinks == alter[mapping]
            new == {maplinks[i].name : i \in DOMAIN maplinks}
            altlinks == ex.links \ {maplinks[i].old : i \in DOMAIN maplinks}
        IN  IF maplinks = <<>> THEN <<>>
            ELSE <<RealmCommand("CreateMappingIndexes", table, mapping, new, "",
                                CreateMappingIndexes(table, mapping, new))>>
                 \o (IF altlinks = {}
                     THEN <<RealmCommand("DropMappingIndexes", table, mapping, {},
                                ex.mapping,
                                DropMappingIndexes(ex.mapping, table, mapping))>>
                     ELSE <<RealmCommand("AlterMappingIndexes", table, mapping, altlinks,
                                ex.mapping,
                                AlterMappingIndexes(ex.mapping, table, mapping,
                                                    altlinks))>>)])

\* the body of `for link_name, ops in self.links.items()` for one link
UpdateLinkIndexes(link, ops, ex) ==
    LET st == ProcessOps([new |-> MappingQueues, alter |-> MappingQueues,
                          processed |-> "", raised |-> FALSE], ops, link, ex)
    IN  [raised |-> st.raised,
         cmds |-> IF st.raised THEN <<>>
                  ELSE NewIndexCommands(st.new, link)
                       \o AlterIndexCommands(st.alter, link, ex)]

\* UpdateMappingIndexes.apply: every link that has pairs recorded
UpdateMappingIndexesApply(lnks, existing) ==
    LET rs == [k \in 1..Len(LinkOrder) |->
                  LET l == LinkOrder[k]
                      ex == ExistingIndexes(existing[l])
                  IN  IF lnks[l] = <<>> THEN [raised |-> FALSE, cmds |-> <<>>]
                      ELSE IF ex.raised THEN [raised |-> TRUE, cmds |-> <<>>]
                      ELSE UpdateLinkIndexes(l, lnks[l], ex.index)]
    IN  [raised |-> \E k \in DOMAIN rs : rs[k].raised,
         cmds |-> Concat([k \in DOMAIN rs |-> rs[k].cmds])]

\* AlterRealm.serialize_ops over realm_pgops
SerializeRealmOps(cmds) ==
    LET all == Concat([i \in DOMAIN cmds |-> cmds[i].ops])
        keys == SortedKeys({all[i].priority : i \in DOMAIN all})
    IN  Concat([k \in 1..Len(keys) |->
                  SelectSeq(all, LAMBDA o : o.priority = keys[k])])

\* a deployed link has the index set its mapping asks for, possibly shared
\* with "M"; a many-to-many link has none
ExistingStates(l) ==
    {<<IndexData("none", {}, "parsed"), "absent">>,
     <<IndexData("none", {}, "parsed"), "**">>}
    \cup {<<IndexData(m, {l} \cup o, "parsed"), m>> :
             m \in Mappings \ {"**"}, o \in {{}, {"M"}}}

\* backends whose index data needs care: the index of a one-to-one link
\* has a name or a predicate that cannot be interpreted, or its predicate
\* lists the id of a link that is gone
IntrospectedStates(l) ==
    {<<IndexData("none", {}, "parsed"), "absent">>,
     <<IndexData("11", {l}, "parsed"), "11">>,
     <<IndexData("11", {l, "X"}, "parsed"), "11">>,
     <<IndexData("unmatched", {l}, "parsed"), "11">>,
     <<IndexData("11", {}, "unparsed"), "11">>}

InitMappingWith(States(_)) ==
    /\ SchedIdle
    /\ DeltaIdle
    /\ ConceptIdle
    /\ RulesIdle
    /\ UpgradeIdle
    /\ BatchIdle
    /\ LinkIdle
    /\ BaseIdle
    /\ AtomIdle
    /\ UsersIdle
    /\ PointerIdle
    /\ \E e \in [LinkNames -> UNION {States(l) : l \in LinkNames}] :
          /\ \A l \in LinkNames : e[l] \in States(l)
          /\ map_existing = [l \in LinkNames |-> e[l][1]]
          /\ map_schema = [l \in LinkNames |-> e[l][2]]
    /\ map_links = [l \in LinkNames |-> <<>>]
    /\ realm_pgops = <<>>
    /\ map_state = "collect"
    /\ map_executed = <<>>

InitMapping == InitMappingWith(ExistingStates)
InitIntrospect == InitMappingWith(IntrospectedStates)

\* the pairs recorded in the delta so far, those a DeleteLink cancelled and
\* the DeleteLink commands themselves included
RecordedPairs ==
    Cardinality({i \in DOMAIN realm_pgops :
                    \/ realm_pgops[i].cmd \in {"ScheduleLinkMappingUpdate", "DeleteLink"}
                    \/ realm_pgops[i].cmd = "CreateLink" /\ realm_pgops[i].mapping /= "**"})

\* CreateLink.apply of a specialized link with a table: the metadata row
\* insert, then schedule_mapping_update unless the link is many-to-many
ScheduleCreateLink(l, mapping) ==
    /\ map_state = "collect"
    /\ map_schema[l] = "absent"
    /\ RecordedPairs < MaxCalls
    /\ map_schema' = [map_schema EXCEPT ![l] = mapping]
    /\ map_links' = IF mapping /= "**"
                    THEN [map_links EXCEPT ![l] =
                             Append(@, [cmd |-> "CreateLink", mapping |-> mapping])]
                    ELSE map_links
    /\ realm_pgops' = Append(realm_pgops,
            RealmCommand("CreateLink", l, mapping, {l}, "",
                         <<PhysicalOp("Insert", l, "", mapping, {l}, 1)>>))
    /\ UNCHANGED <<map_existing, map_state, map_executed>>
    /\ UNCHANGED notMapVars

\* AlterLink.apply of a deployed specialized link whose mapping changes:
\* schedule_mapping_update
ScheduleAlterLink(l, mapping) ==
    /\ map_state = "collect"
    /\ map_schema[l] /= "absent"
    /\ \A i \in DOMAIN map_links[l] : map_links[l][i].cmd /= "CreateLink"
    /\ ~\E i \in DOMAIN realm_pgops :
           realm_pgops[i].cmd = "CreateLink" /\ realm_pgops[i].table = l
    /\ map_schema[l] /= mapping
    /\ RecordedPairs < MaxCalls
    /\ map_schema' = [map_schema EXCEPT ![l] = mapping]
    /\ map_links' = [map_links EXCEPT ![l] =
                        Append(@, [cmd |-> "AlterLink", mapping |-> mapping])]
    /\ realm_pgops' = Append(realm_pgops,
            RealmCommand("ScheduleLinkMappingUpdate", l, mapping, {l}, "", <<>>))
    /\ UNCHANGED <<map_existing, map_state, map_executed>>
    /\ UNCHANGED notMapVars

\* LinkMetaCommand.cancel_mapping_update: mapping_indexes.links.pop(name, None)
cancel_mapping_update_keeps(lnks, l) == lnks
cancel_mapping_update(lnks, l) == [lnks EXCEPT ![l] = <<>>]

\* DeleteLink.apply of a deployed or just created specialized link with a
\* table: DropTable, cancel_mapping_update, then schedule_mapping_update
\* unless the link is many-to-many, and the metadata row delete
ScheduleDeleteLink(l) ==
    /\ map_state = "collect"
    /\ map_schema[l] /= "absent"
    /\ RecordedPairs < MaxCalls
    /\ ~\E i \in DOMAIN realm_pgops :
           realm_pgops[i].cmd = "DeleteLink" /\ realm_pgops[i].table = l
    /\ map_schema' = [map_schema EXCEPT ![l] = "absent"]
    /\ map_links' = LET cancelled == cancel_mapping_update(map_links, l)
                    IN  IF map_schema[l] /= "**"
                        THEN [cancelled EXCEPT ![l] =
                                 Append(@, [cmd |-> "DeleteLink",
                                            mapping |-> map_schema[l]])]
                        ELSE cancelled
    /\ realm_pgops' = Append(realm_pgops,
            RealmCommand("DeleteLink", l, map_schema[l], {l}, "",
                         <<PhysicalOp("DropTable", l, "", map_schema[l], {l}, 0),
                           PhysicalOp("Delete", l, "", map_schema[l], {l}, 0)>>))
    /\ UNCHANGED <<map_existing, map_state, map_executed>>
    /\ UNCHANGED notMapVars

\* the end of AlterRealm.apply: update_mapping_indexes.apply, then
\* self.pgops.add(self.update_mapping_indexes)
RealmApplyEnd ==
    /\ map_state = "collect"
    /\ LET r == UpdateMappingIndexesApply(map_links, map_existing)
       IN  /\ map_state' = IF r.raised THEN "raised" ELSE "applied"
           /\ realm_pgops' = IF r.raised THEN realm_pgops ELSE realm_pgops \o r.cmds
    /\ UNCHANGED <<map_existing, map_schema, map_links, map_executed>>
    /\ UNCHANGED notMapVars

\* AlterRealm.execute
ExecuteRealm ==
    /\ map_state = "applied"
    /\ map_executed' = SerializeRealmOps(realm_pgops)
    /\ map_state' = "executed"
    /\ UNCHANGED <<map_existing, map_schema, map_links, realm_pgops>>
    /\ UNCHANGED notMapVars

NextMapping ==
    \/ \E l \in LinkNames, mapping \in Mappings : ScheduleCreateLink(l, mapping)
    \/ \E l \in LinkNames, mapping \in Mappings : ScheduleAlterLink(l, mapping)
    \/ \E l \in LinkNames : ScheduleDeleteLink(l)
    \/ RealmApplyEnd
    \/ ExecuteRealm

SpecMapping == InitMapping /\ [][NextMapping]_vars

\* the same delta on a backend whose index data needs care
SpecIntrospect == InitIntrospect /\ [][NextMapping]_vars

(***************************************************************************)
(* Claims about the mapping indexes.                                       *)
(***************************************************************************)
IndexCommandNames ==
    {"CreateMappingIndexes", "DropMappingIndexes", "AlterMappingIndexes"}
IndexCommands == {i \in DOMAIN realm_pgops : realm_pgops[i].cmd \in IndexCommandNames}
IsIndexOp(o) == o.op \in {"CreateIndex", "DropIndexes"}
CreatedSides(c) == SelectSeq(c.ops, LAMBDA o : o.op = "CreateIndex")
ExpectedSides(mapping) ==
    IF mapping = "11" THEN {"source", "target"}
    ELSE IF mapping = "1*" THEN {"target"}
    ELSE IF mapping = "*1" THEN {"source"}
    ELSE {}

\* C23: the indexes created for a link depend on its cardinality alone: one
\* on the source side and one on the target side for one-to-one, one on the
\* target side for one-to-many, one on the source side for many-to-one, none
\* for many-to-many; and creating a many-to-many link records no pair.
C23_IndexesByCardinality ==
    /\ \A i \in IndexCommands :
          LET c == realm_pgops[i]
          IN  c.cmd /= "DropMappingIndexes"
                  => /\ {CreatedSides(c)[k].side : k \in DOMAIN CreatedSides(c)}
                            = ExpectedSides(c.mapping)
                     /\ Len(CreatedSides(c)) = Cardinality(ExpectedSides(c.mapping))
    /\ \A l \in LinkNames : \A k \in DOMAIN map_links[l] :
          map_links[l][k].cmd = "CreateLink" => map_links[l][k].mapping /= "**"

C23_Witness ==
    /\ map_state = "applied"
    /\ \E i \in DOMAIN realm_pgops :
          /\ realm_pgops[i].cmd = "CreateLink"
          /\ realm_pgops[i].mapping = "**"
          /\ map_links[realm_pgops[i].table] = <<>>
    /\ \E i \in IndexCommands :
          /\ realm_pgops[i].mapping = "1*"
          /\ Len(realm_pgops[i].ops) = 1
          /\ realm_pgops[i].ops[1].side = "target"

\* C24: while the link commands of the delta apply, only (command, link)
\* pairs are recorded and no index operation exists; the index commands are
\* added after every link command; and at execution every index operation
\* runs after every metadata row insert.
C24_ReconciliationDeferred ==
    /\ map_state = "collect" => IndexCommands = {}
    /\ \A i \in IndexCommands : \A j \in DOMAIN realm_pgops :
          realm_pgops[j].cmd \notin IndexCommandNames => j < i
    /\ \A i, j \in DOMAIN map_executed :
          (map_executed[i].op = "Insert" /\ IsIndexOp(map_executed[j])) => i < j

C24_Witness ==
    /\ map_state = "executed"
    /\ \E i, j \in DOMAIN map_executed :
          /\ map_executed[i].op = "Insert"
          /\ map_executed[j].op = "CreateIndex"
          /\ map_executed[i].table = map_executed[j].table
    /\ RecordedPairs >= 2

OnlyAlterLinks(l) ==
    /\ map_links[l] /= <<>>
    /\ \A i \in DOMAIN map_links[l] : map_links[l][i].cmd = "AlterLink"

\* C25: whatever the number of AlterLink commands recorded for a link, the
\* reconciliation completes without error and the link is planned under its
\* last cardinality only.
C25_AnyNumberOfAlters ==
    \A l \in LinkNames :
        (map_state /= "collect" /\ OnlyAlterLinks(l))
            => /\ map_state /= "raised"
               /\ \A i \in IndexCommands :
                     (realm_pgops[i].table = l /\ l \in realm_pgops[i].links)
                         => realm_pgops[i].mapping = map_schema[l]

\* the existing index set of a link's table as apply reads it
Existing(l) == ExistingIndexes(map_existing[l]).index

\* C26: when the last cardinality of an altered link is the cardinality of
\* its existing index set, no index command is emitted for that set.
C26_UnchangedCardinalityNoIndexWork ==
    \A l \in LinkNames :
        (/\ map_state /= "collect"
         /\ OnlyAlterLinks(l)
         /\ Existing(l).mapping /= "none"
         /\ map_schema[l] = Existing(l).mapping)
            => ~\E i \in IndexCommands : realm_pgops[i].table = l

C26_Witness ==
    /\ map_state = "applied"
    /\ Len(map_links["L"]) = 2
    /\ Existing("L").mapping = "11"
    /\ map_schema["L"] = "11"
    /\ ~\E i \in IndexCommands : realm_pgops[i].table = "L"

\* C27: an existing index set that loses a member is dropped and recreated
\* under its own cardinality with the links that remain, or just dropped
\* when no link remains; a newly needed set gets create-index only.
C27_MembershipChange ==
    \A i \in IndexCommands :
        LET c == realm_pgops[i]
            ex == Existing(c.table)
        IN  /\ c.cmd = "AlterMappingIndexes"
                => /\ c.idx = ex.mapping
                   /\ c.links = ex.links \ {c.table}
                   /\ c.links /= {}
                   /\ c.mapping = ex.mapping
                   /\ Head(c.ops).op = "DropIndexes"
            /\ c.cmd = "DropMappingIndexes"
                => /\ c.idx = ex.mapping
                   /\ ex.links \ {c.table} = {}
                   /\ Len(c.ops) = 1
            /\ c.cmd = "CreateMappingIndexes"
                => \A k \in DOMAIN c.ops : c.ops[k].op = "CreateIndex"

\* index data interpret_index cannot read
Uninterpretable(index) ==
    \/ index.mapping \notin Mappings \cup {"none"}
    \/ index.predicate /= "parsed"

\* the index data with the ids of unknown links taken out of the predicates
WithoutUnknownLinks ==
    [l \in LinkNames |-> [map_existing[l] EXCEPT !.links = @ \cap link_map]]

\* C34: when the index data read for a link's table has a name that does
\* not match <cardinality>_link_mapping_idx or a predicate that cannot be
\* parsed, the delta is aborted by the error and no mapping-index operation
\* is emitted; a link id of the predicate that names no known link is
\* ignored: the outcome is that of the index data without the id.
C34_UninterpretableIndexAborts ==
    /\ \A l \in LinkNames :
          (/\ map_state /= "collect"
           /\ map_links[l] /= <<>>
           /\ Uninterpretable(map_existing[l]))
              => /\ map_state = "raised"
                 /\ IndexCommands = {}
                 /\ map_executed = <<>>
    /\ map_state /= "collect" =>
          LET r == UpdateMappingIndexesApply(map_links, WithoutUnknownLinks)
          IN  /\ (map_state = "raised") = r.raised
              /\ ~r.raised =>
                    r.cmds = SelectSeq(realm_pgops,
                                       LAMBDA c : c.cmd \in IndexCommandNames)

C34_Witness ==
    /\ map_state = "raised"
    /\ map_links["L"] /= <<>>
    /\ map_existing["L"].mapping = "unmatched"
    /\ \A i \in DOMAIN map_links["L"] : map_links["L"][i].cmd = "AlterLink"
    /\ map_links["K"] /= <<>>

C34_WitnessPredicate ==
    /\ map_state = "raised"
    /\ map_links["K"] /= <<>>
    /\ map_existing["K"].predicate = "unparsed"
    /\ Len(map_links["K"]) = 1

C34_WitnessUnknownLink ==
    /\ map_state = "executed"
    /\ map_links["L"] /= <<>>
    /\ "X" \in map_existing["L"].links
    /\ \E i \in IndexCommands : realm_pgops[i].table = "L"

\* the link was deleted by the delta and not created again
DeletedLink(l) ==
    /\ map_schema[l] = "absent"
    /\ \E i \in DOMAIN realm_pgops :
          realm_pgops[i].cmd = "DeleteLink" /\ realm_pgops[i].table = l

\* C39: after the DeleteLink of a link the pairs recorded for it by earlier
\* CreateLink and AlterLink commands are gone, and the maintainer emits no
\* index command for the deleted link at the end of the delta.
C39_DeleteLinkDiscardsWork ==
    \A l \in LinkNames :
        /\ \A k \in DOMAIN map_links[l] : map_links[l][k].cmd = "DeleteLink" => k = 1
        /\ DeletedLink(l) =>
              /\ \A k \in DOMAIN map_links[l] :
                     map_links[l][k].cmd \notin {"CreateLink", "AlterLink"}
              /\ \A i \in IndexCommands : realm_pgops[i].table /= l

C39_Witness ==
    /\ map_state = "executed"
    /\ DeletedLink("L")
    /\ map_links["L"] = <<[cmd |-> "DeleteLink", mapping |-> "1*"]>>
    /\ \E i \in DOMAIN realm_pgops :
          /\ realm_pgops[i].cmd = "ScheduleLinkMappingUpdate"
          /\ realm_pgops[i].table = "L"
    /\ \E i \in IndexCommands : realm_pgops[i].table = "K"

(***************************************************************************)
(* The type rule registry: TypeRules.add_rule and TypeRules.get_result of  *)
(* edgedb/lang/schema/types.py.  Integer is a subclass of Number; a result *)
(* is a type or the name of one.  rules holds one entry per (operator,     *)
(* signature), as the nested dictionaries do.                              *)
(***************************************************************************)
Types == {"Integer", "Number"}
TypeNames == {"std.int"}
Operators == {"+", "-"}
Signatures == [1..1 -> Types] \cup [1..2 -> Types]

\* issubclass(arg, sig_arg) / arg.issubclass(sig_arg)
issubclassIdentity(arg, sig_arg) == arg = sig_arg
issubclass(arg, sig_arg) == arg = sig_arg \/ (arg = "Integer" /\ sig_arg = "Number")

\* schema.get(match) for a result that is a name
SchemaGet(name) == IF name = "std.int" THEN "Integer" ELSE name

Rule(op, args, res) == [op |-> op, args |-> args, result |-> res]

\* a registry that drops the signature already there and registers it anew
add_rule_anew(rs, op, args, res) ==
    Append(SelectSeq(rs, LAMBDA r : ~(r.op = op /\ r.args = args)),
           Rule(op, args, res))

\* cls.rules.setdefault(op, {}).setdefault(len(args), {})[tuple(args)] = result:
\* a new signature is added, a signature already there gets the new result
add_rule(rs, op, args, res) ==
    IF \E i \in DOMAIN rs : rs[i].op = op /\ rs[i].args = args
    THEN [i \in DOMAIN rs |->
            IF rs[i].op = op /\ rs[i].args = args THEN Rule(op, args, res)
            ELSE rs[i]]
    ELSE Append(rs, Rule(op, args, res))

\* cls.rules.get(op), then rules.get(len(args))
RulesFor(rs, op, args) ==
    {i \in DOMAIN rs : rs[i].op = op /\ Len(rs[i].args) = Len(args)}

\* the inner loop with its else clause: no position breaks
SignatureMatches(sig, args) ==
    \A i \in DOMAIN args : issubclass(args[i], sig[i])

\* `for sig, result in rules.items()` stops at the first signature that
\* matches; rules is a plain dict, whose order of iteration is the
\* interpreter's, so each matching signature can be the first one met
get_result(rs, op, args) ==
    LET matching == {i \in RulesFor(rs, op, args) : SignatureMatches(rs[i].args, args)}
    IN  IF matching = {} THEN {"none"}
        ELSE {IF rs[i].result \in TypeNames THEN SchemaGet(rs[i].result)
              ELSE rs[i].result : i \in matching}

InitRules ==
    /\ SchedIdle
    /\ DeltaIdle
    /\ ConceptIdle
    /\ UpgradeIdle
    /\ BatchIdle
    /\ LinkIdle
    /\ BaseIdle
    /\ AtomIdle
    /\ UsersIdle
    /\ PointerIdle
    /\ MappingIdle
    /\ RulesIdle

\* TypeRules.add_rule(op, args, result); the registered rules are for "+"
AddRule(args, res) ==
    /\ rule_result = "unasked"
    /\ Len(rule_calls) < MaxRules
    /\ rules' = add_rule(rules, "+", args, res)
    /\ rule_calls' = Append(rule_calls, Rule("+", args, res))
    /\ UNCHANGED <<rule_query, rule_result>>
    /\ UNCHANGED notRuleVars

\* TypeRules.get_result(op, args, schema)
GetResult(op, args) ==
    /\ rule_result = "unasked"
    /\ rule_query' = [op |-> op, args |-> args]
    /\ rule_result' \in get_result(rules, op, args)
    /\ UNCHANGED <<rules, rule_calls>>
    /\ UNCHANGED notRuleVars

NextRules ==
    \/ \E args \in Signatures, res \in Types \cup TypeNames : AddRule(args, res)
    \/ \E op \in Operators, args \in Signatures : GetResult(op, args)

SpecRules == InitRules /\ [][NextRules]_vars

(***************************************************************************)
(* Claims about the type rule registry.                                    *)
(***************************************************************************)
Asked == rule_result /= "unasked"
SubtypePairs == {<<"Integer", "Number">>}

\* a registration whose signature accepts the query
Accepts(r, q) ==
    /\ r.op = q.op
    /\ Len(r.args) = Len(q.args)
    /\ \A i \in DOMAIN q.args :
          r.args[i] = q.args[i] \/ <<q.args[i], r.args[i]>> \in SubtypePairs

ResultType(r) == IF r.result = "std.int" THEN "Integer" ELSE r.result

FirstAccepting ==
    CHOOSE i \in DOMAIN rule_calls :
        /\ Accepts(rule_calls[i], rule_query)
        /\ \A j \in 1..(i - 1) : ~Accepts(rule_calls[j], rule_query)

\* C28: get_result returns the result of the first registration, in the
\* order of the add_rule calls, whose signature matches; no registration
\* made later wins over an earlier matching one.
C28_FirstRegisteredWins ==
    (Asked /\ \E i \in DOMAIN rule_calls : Accepts(rule_calls[i], rule_query))
        => rule_result = ResultType(rule_calls[FirstAccepting])

\* C29: a signature matches exactly when it has the operator, the number of
\* arguments and, at every position, the type or a supertype of the actual
\* argument; without a matching signature get_result returns None.
C29_MatchesByOperatorArityAndSubtype ==
    Asked
        => /\ rule_result /= "none"
                <=> \E i \in DOMAIN rules : Accepts(rules[i], rule_query)
           /\ rule_result /= "none"
                => \E i \in DOMAIN rules :
                      /\ Accepts(rules[i], rule_query)
                      /\ ResultType(rules[i]) = rule_result

C29_Witness ==
    /\ Len(rules) = 2
    /\ rule_query = [op |-> "+", args |-> <<"Integer", "Integer">>]
    /\ rules[1].args = <<"Number", "Integer">>
    /\ rules[2].args = <<"Integer", "Number">>
    /\ rules[1].result = "Number"
    /\ rule_result = "Number"

C29_WitnessNoMatch ==
    /\ Len(rules) = 1
    /\ rules[1].args = <<"Integer", "Integer">>
    /\ rule_query = [op |-> "+", args |-> <<"Number", "Integer">>]
    /\ rule_result = "none"

\* the calls that register a signature for the first time
FirstRegistrations ==
    {i \in DOMAIN rule_calls :
        \A j \in 1..(i - 1) :
            ~(rule_calls[j].op = rule_calls[i].op
              /\ rule_calls[j].args = rule_calls[i].args)}

\* the call that first registered the signature now at position k
FirstRegistrationAt(k) ==
    CHOOSE i \in FirstRegistrations :
        Cardinality({j \in FirstRegistrations : j <= i}) = k

\* the last call that registered the signature of call i
LastRegistrationOf(i) ==
    CHOOSE j \in DOMAIN rule_calls :
        /\ rule_calls[j].op = rule_calls[i].op
        /\ rule_calls[j].args = rule_calls[i].args
        /\ \A m \in (j + 1)..Len(rule_calls) :
              ~(rule_calls[m].op = rule_calls[i].op
                /\ rule_calls[m].args = rule_calls[i].args)

\* C40: registering a signature that is already registered replaces its
\* result and keeps it at the position of its first registration: the
\* registry holds every signature once, in the order of the first
\* registrations, each with the result of its last registration.
C40_ReRegistrationKeepsPosition ==
    /\ Len(rules) = Cardinality(FirstRegistrations)
    /\ \A k, m \in DOMAIN rules :
          (rules[k].op = rules[m].op /\ rules[k].args = rules[m].args) => k = m
    /\ \A k \in DOMAIN rules :
          /\ rules[k].op = rule_calls[FirstRegistrationAt(k)].op
          /\ rules[k].args = rule_calls[FirstRegistrationAt(k)].args
          /\ rules[k].result =
                rule_calls[LastRegistrationOf(FirstRegistrationAt(k))].result

C40_Witness ==
    /\ Len(rule_calls) = 3
    /\ rule_calls[1].args = <<"Integer", "Integer">>
    /\ rule_calls[2].args = <<"Number", "Number">>
    /\ rule_calls[3].args = <<"Integer", "Integer">>
    /\ rule_calls[1].result = "Integer"
    /\ rule_calls[3].result = "Number"
    /\ rules = <<Rule("+", <<"Integer", "Integer">>, "Number"),
                 Rule("+", <<"Number", "Number">>, rule_calls[2].result)>>

(***************************************************************************)
(* Creation of a concept with one property: CreateConcept.apply and the    *)
(* CreateLink.apply of the property's specialized link, which runs as a    *)
(* sub-command of the concept's.                                           *)
(***************************************************************************)
\* link.singular(): the source has at most one target
Singular(mapping) == mapping \in {"11", "*1"}

PropertyLink(in) ==
    Link(FALSE, BuiltinLink, in.atomic, Singular(in.mapping), in.props, FALSE)

\* the generic link of a link stored in its own table has a table
ConceptInputs ==
    {in \in [is_virtual : BOOLEAN, base_object : BOOLEAN, atomic : BOOLEAN,
             mapping : Mappings, props : BOOLEAN, search : BOOLEAN,
             has_default : BOOLEAN, gen_table : BOOLEAN] :
        get_pointer_storage_info(PropertyLink(in)) = "link" => in.gen_table}

\* exists: the table is in the backend before the delta runs
ConceptOp(op, target, prio, exists) ==
    [op |-> op, target |-> target, priority |-> prio, exists |-> exists]

\* `if ptr_stor_info.table_type == 'concept'`
StoredInConceptNever(in) == FALSE
StoredInConcept(in) == get_pointer_storage_info(PropertyLink(in)) = "concept"

\* CreateLink.apply of the property
CreateLinkOps(in) ==
    LET own_table == NonGenericHasTable(PropertyLink(in))
    IN  (IF in.gen_table
         THEN <<ConceptOp("CreateTable", "generic_link", 0, StoredInConcept(in))>>
         ELSE <<>>)
        \o (IF own_table THEN <<ConceptOp("CreateTable", "link", 0, FALSE)>> ELSE <<>>)
        \o (IF StoredInConcept(in)
            THEN <<ConceptOp("AlterTableAddColumn", "concept", 0, FALSE)>>
                 \o (IF in.has_default
                     THEN <<ConceptOp("AlterTableAlterColumnDefault", "concept", 3, FALSE)>>
                     ELSE <<>>)
            ELSE <<>>)
        \o <<ConceptOp("Insert", "link", 1, FALSE)>>
        \o (IF own_table
            THEN <<ConceptOp("AlterTableAddConstraint", "link", 0, FALSE)>>
            ELSE <<>>)
        \o (IF in.mapping /= "**" /\ own_table
            THEN <<ConceptOp("ScheduleLinkMappingUpdate", "link", 0, FALSE)>>
            ELSE <<>>)

\* UpdateSearchIndexes.apply, run when the property registered a search
\* configuration through search_index_add
SearchIndexOps(in) ==
    IF StoredInConcept(in) /\ in.search
    THEN <<ConceptOp("DropIndex", "concept", 0, FALSE),
           ConceptOp("CreateIndex", "concept", 0, FALSE)>>
    ELSE <<>>

\* CreateConcept.apply; create_object inserts the concept's row at
\* op_priority, which is 0 for a concept command
CreateConceptOps(in) ==
    IF in.is_virtual THEN CreateLinkOps(in)
    ELSE <<ConceptOp("CreateTable", "concept", 0, FALSE)>>
         \o CreateLinkOps(in)
         \o <<ConceptOp("Insert", "concept", 0, FALSE),
              ConceptOp("AlterTableAddConstraint", "concept", 0, FALSE)>>
         \o (IF in.base_object
             THEN <<ConceptOp("AlterTableAddColumn", "concept", 0, FALSE)>>
             ELSE <<>>)
         \o <<ConceptOp("AlterTableAddConstraint", "concept", 0, FALSE)>>
         \o (IF in.atomic /\ Singular(in.mapping) /\ in.has_default
             THEN <<ConceptOp("AlterTableAlterColumnDefault", "concept", 3, FALSE)>>
             ELSE <<>>)
         \o SearchIndexOps(in)
         \o <<ConceptOp("Comment", "concept", 0, FALSE)>>

InitConcept ==
    /\ SchedIdle
    /\ DeltaIdle
    /\ UpgradeIdle
    /\ BatchIdle
    /\ LinkIdle
    /\ BaseIdle
    /\ AtomIdle
    /\ UsersIdle
    /\ PointerIdle
    /\ MappingIdle
    /\ RulesIdle
    /\ cc_in \in ConceptInputs
    /\ cc_ops = <<>>
    /\ cc_state = "start"

CreateConcept ==
    /\ cc_state = "start"
    /\ cc_ops' = CreateConceptOps(cc_in)
    /\ cc_state' = "returned"
    /\ UNCHANGED cc_in
    /\ UNCHANGED notConceptVars

NextConcept == CreateConcept

SpecConcept == InitConcept /\ [][NextConcept]_vars

(***************************************************************************)
(* Claims about the creation of a concept.                                 *)
(***************************************************************************)
OpsWhere(P(_)) == {i \in DOMAIN cc_ops : P(cc_ops[i])}
NewTables == OpsWhere(LAMBDA o : o.op = "CreateTable" /\ ~o.exists)
NewColumns == OpsWhere(LAMBDA o : o.op = "AlterTableAddColumn")
InsertsAtPriority1 == OpsWhere(LAMBDA o : o.op = "Insert" /\ o.priority = 1)
IndexOperations ==
    OpsWhere(LAMBDA o : o.op \in {"CreateIndex", "DropIndex", "ScheduleLinkMappingUpdate"})

ConceptWithScalarProperty ==
    /\ cc_state = "returned"
    /\ ~cc_in.is_virtual
    /\ cc_in.atomic /\ Singular(cc_in.mapping) /\ ~cc_in.props

DeltaOp(cmd, op, obj, prio, gk, go) ==
    [cmd |-> cmd, op |-> op, obj |-> obj, own |-> prio, priority |-> prio,
     gk |-> gk, go |-> go]

\* dbops.CommandGroup(priority=p) with these commands: the group is one
\* item of pgops and its members run at the group's place
InGroup(prio, ops) == [i \in DOMAIN ops |-> [ops[i] EXCEPT !.priority = prio]]

BootstrapTables ==
    <<"table:caos.module", "table:caos.atom", "table:caos.concept",
      "table:caos.link", "table:caos.link_property">>

\* the beginning of AlterRealm.apply: schema caos, the feature table and
\* the metadata tables
BootstrapOps ==
    <<DeltaOp("AlterRealm", "CreateSchema", "schema:caos", -3, "absent", "schema:caos"),
      DeltaOp("AlterRealm", "CreateTable", "table:caos.feature", -3, "absent",
              "table:caos.feature")>>
    \o [i \in DOMAIN BootstrapTables |->
          DeltaOp("AlterRealm", "CreateTable", BootstrapTables[i], -1, "absent",
                  BootstrapTables[i])]

\* CreateModule.apply: one group under `not SchemaExists`
CreateModuleOps ==
    InGroup(0, <<DeltaOp("CreateModule", "CreateSchema", "schema:mod", 0, "absent", "schema:mod"),
                 DeltaOp("CreateModule", "Insert", "row:module", 0, "absent", "schema:mod")>>)

\* DeleteModule.apply: DropSchema(priority=4) inside dbops.CommandGroup()
DeleteModuleOps ==
    InGroup(0, <<DeltaOp("DeleteModule", "DropSchema", "schema:mod", 4, "present", "schema:mod"),
                 DeltaOp("DeleteModule", "Delete", "row:module", 0, "none", "")>>)

\* CreateConcept.apply of a concept with the pointer ptr; search: the
\* pointer has a search configuration
DeltaCreateConceptOps(search) ==
    <<DeltaOp("CreateConcept", "CreateTable", "table:concept", 0, "none", ""),
      DeltaOp("CreateLink", "AlterTableAddColumn", "column:ptr", 0, "absent", "column:ptr"),
      DeltaOp("CreateLink", "Insert", "row:ptr", 1, "none", ""),
      DeltaOp("CreateConcept", "Insert", "row:concept", 0, "none", "")>>
    \o (IF search
        THEN <<DeltaOp("UpdateSearchIndexes", "DropIndex", "index:search", 0,
                       "present", "index:search"),
               DeltaOp("UpdateSearchIndexes", "CreateIndex", "index:search", 0, "none", "")>>
        ELSE <<>>)

\* DeleteConcept.apply
DeleteConceptOps ==
    <<DeltaOp("DeleteConcept", "Delete", "row:concept", 0, "none", ""),
      DeltaOp("DeleteConcept", "DropTable", "table:concept", 3, "none", "")>>

\* CreateLinkProperty.apply inside the host link's context
CreateLinkPropertySamePriority ==
    <<DeltaOp("CreateLinkProperty", "AlterTableAddColumn", "column:prop", 0,
              "absent", "column:prop"),
      DeltaOp("CreateLinkProperty", "Insert", "row:prop", 1, "none", "")>>
CreateLinkPropertyOps ==
    <<DeltaOp("CreateLinkProperty", "AlterTableAddColumn", "column:prop", 0,
              "absent", "column:prop"),
      DeltaOp("CreateLinkProperty", "Insert", "row:prop", 2, "none", "")>>

\* CreateLink.apply of the link with its own table: the commands below it
\* (props: the property is created with it), _create_table's group, the row
DeltaCreateLinkOps(props) ==
    (IF props THEN CreateLinkPropertyOps ELSE <<>>)
    \o InGroup(0, <<DeltaOp("CreateLink", "CreateTable", "table:link", 0, "absent", "table:link"),
                    DeltaOp("CreateLink", "CreateIndex", "index:link_target", 0,
                            "absent", "table:link")>>)
    \o <<DeltaOp("CreateLink", "Insert", "row:link", 1, "none", "")>>

\* DeleteLink.apply; stored: the pointer ptr, stored in the concept table,
\* else the link with its own table
DeleteLinkOps(stored) ==
    (IF stored
     THEN <<DeltaOp("DeleteLink", "AlterTableDropColumn", "column:ptr", 2,
                    "present", "column:ptr"),
            DeltaOp("DeleteLink", "DropTable", "table:ptr", 0, "present", "table:ptr"),
            DeltaOp("DeleteLink", "Delete", "row:ptr", 0, "none", "")>>
     ELSE <<DeltaOp("DeleteLink", "DropTable", "table:link", 0, "present", "table:link"),
            DeltaOp("DeleteLink", "Delete", "row:link", 0, "none", "")>>)

\* DeleteLinkProperty.apply: the column goes through the link's batch
DeleteLinkPropertyOps ==
    <<DeltaOp("DeleteLinkProperty", "AlterTableDropColumn", "column:prop", 0, "none", ""),
      DeltaOp("DeleteLinkProperty", "Delete", "row:prop", 0, "none", "")>>

\* AlterLinkProperty.apply with a new target atom: alter_host_table_column
AlterLinkPropertyOps ==
    <<DeltaOp("AlterLinkProperty", "Update", "row:prop", 1, "none", ""),
      DeltaOp("AlterLinkProperty", "AlterTableAlterColumnType", "column:prop", 1, "none", "")>>

\* DeleteAtom.apply; is_sequence: the atom is a sequence
DeleteAtomOpsEarly(is_sequence) ==
    <<DeltaOp("DeleteAtom", "DropDomain", "domain:a", 0, "present", "domain:a"),
      DeltaOp("DeleteAtom", "Delete", "row:atom", 0, "none", "")>>
    \o (IF is_sequence
        THEN <<DeltaOp("DeleteAtom", "DropSequence", "sequence:a", 0, "none", "")>>
        ELSE <<>>)
DeleteAtomOps(is_sequence) ==
    <<DeltaOp("DeleteAtom", "DropDomain", "domain:a", 3, "present", "domain:a"),
      DeltaOp("DeleteAtom", "Delete", "row:atom", 0, "none", "")>>
    \o (IF is_sequence
        THEN <<DeltaOp("DeleteAtom", "DropSequence", "sequence:a", 0, "none", "")>>
        ELSE <<>>)

\* CreateSourceIndex.apply and DeleteSourceIndex.apply
CreateSourceIndexOps ==
    <<DeltaOp("CreateSourceIndex", "CreateIndex", "index:src", 3, "none", "")>>
DeleteSourceIndexOps ==
    <<DeltaOp("DeleteSourceIndex", "DropIndex", "index:src", 3, "present", "index:src")>>

DeltaCommand(name, flag) == [name |-> name, flag |-> flag]
DeltaCommands ==
    {DeltaCommand(n, FALSE) :
        n \in {"CreateModule", "DeleteModule", "DeleteConcept", "DeleteLinkProperty",
               "AlterLinkProperty", "DeleteAtom", "CreateSourceIndex",
               "DeleteSourceIndex"}}
    \cup {DeltaCommand(n, f) : n \in {"CreateConcept", "CreateLink", "DeleteLink"},
                               f \in BOOLEAN}

\* the operations the command adds; backend tells whether the atom is a sequence
CommandOps(c, backend) ==
    CASE c.name = "CreateModule" -> CreateModuleOps
      [] c.name = "DeleteModule" -> DeleteModuleOps
      [] c.name = "CreateConcept" -> DeltaCreateConceptOps(c.flag)
      [] c.name = "DeleteConcept" -> DeleteConceptOps
      [] c.name = "CreateLink" -> DeltaCreateLinkOps(c.flag)
      [] c.name = "DeleteLink" -> DeleteLinkOps(c.flag)
      [] c.name = "DeleteLinkProperty" -> DeleteLinkPropertyOps
      [] c.name = "AlterLinkProperty" -> AlterLinkPropertyOps
      [] c.name = "DeleteAtom" -> DeleteAtomOps("sequence:a" \in backend)
      [] c.name = "CreateSourceIndex" -> CreateSourceIndexOps
      [] c.name = "DeleteSourceIndex" -> DeleteSourceIndexOps

\* the schema the delta is applied to holds what the command changes
CommandApplies(c, backend, before) ==
    LET created(n) == \E i \in DOMAIN before : before[i].name = n
        named(n) == \E i \in DOMAIN before : before[i].name = n
    IN  /\ ~named(c.name)
        /\ CASE c.name = "CreateModule" -> "row:module" \notin backend
             [] c.name = "DeleteModule" -> "row:module" \in backend
             [] c.name = "CreateConcept" ->
                    /\ "row:concept" \notin backend
                    /\ "row:module" \in backend \/ created("CreateModule")
             [] c.name = "DeleteConcept" -> "row:concept" \in backend
             [] c.name = "CreateLink" ->
                    /\ "row:link" \notin backend
                    /\ "row:concept" \in backend \/ created("CreateConcept")
             [] c.name = "DeleteLink" ->
                    IF c.flag THEN "row:ptr" \in backend ELSE "row:link" \in backend
             [] c.name = "DeleteLinkProperty" ->
                    "row:prop" \in backend /\ ~named("AlterLinkProperty")
             [] c.name = "AlterLinkProperty" ->
                    "row:prop" \in backend /\ ~named("DeleteLinkProperty")
             [] c.name = "DeleteAtom" -> "row:atom" \in backend
             [] c.name = "CreateSourceIndex" ->
                    /\ "index:src" \notin backend
                    /\ "row:concept" \in backend \/ created("CreateConcept")
             [] c.name = "DeleteSourceIndex" -> "index:src" \in backend

\* AlterRealm.serialize_ops over the collected operations
SerializeDeltaOps(ops) ==
    LET keys == SortedKeys({ops[i].priority : i \in DOMAIN ops})
    IN  Concat([k \in 1..Len(keys) |->
                  SelectSeq(ops, LAMBDA o : o.priority = keys[k])])

CreatingOps == {"CreateSchema", "CreateTable", "CreateIndex", "Insert", "AlterTableAddColumn"}
DroppingOps ==
    {"DropSchema", "DropTable", "DropIndex", "DropDomain", "DropSequence",
     "AlterTableDropColumn"}

\* op.execute(context): an operation whose condition does not hold is
\* skipped; the backend rejects creating what exists and dropping what does
\* not; st is [db, ok]
ExecuteDeltaOp(o, st) ==
    IF ~st.ok \/ ~GuardHolds(o.gk, o.go, st.db) THEN st
    ELSE IF o.op \in CreatingOps
         THEN IF o.obj \in st.db THEN [st EXCEPT !.ok = FALSE]
              ELSE [st EXCEPT !.db = @ \cup {o.obj}]
    ELSE IF o.op \in DroppingOps
         THEN IF o.obj \notin st.db THEN [st EXCEPT !.ok = FALSE]
              ELSE [st EXCEPT !.db = @ \ {o.obj}]
    ELSE IF o.op = "Delete" THEN [st EXCEPT !.db = @ \ {o.obj}]
    ELSE st

\* `for op in self.serialize_ops(): op.execute(context)`
RECURSIVE ExecuteDeltaOps(_, _)
ExecuteDeltaOps(ops, st) ==
    IF ops = <<>> THEN st
    ELSE ExecuteDeltaOps(Tail(ops), ExecuteDeltaOp(Head(ops), st))

Bootstrapped == {"schema:caos", "table:caos.feature"} \cup Range(BootstrapTables)
DeployedBackend ==
    Bootstrapped
    \cup {"schema:mod", "row:module", "domain:a", "sequence:a", "row:atom",
          "table:concept", "row:concept", "column:ptr", "row:ptr", "index:search",
          "table:link", "index:link_target", "row:link", "column:prop", "row:prop",
          "index:src"}

\* a new backend, one with the metadata only, the deployment, and the
\* deployment whose atom has no domain or is no sequence
InitialBackends ==
    {{}, Bootstrapped, Bootstrapped \cup {"schema:mod", "row:module"}, DeployedBackend,
     DeployedBackend \ {"domain:a"}, DeployedBackend \ {"sequence:a"}}

InitDelta ==
    /\ SchedIdle
    /\ ConceptIdle
    /\ RulesIdle
    /\ MappingIdle
    /\ PointerIdle
    /\ UsersIdle
    /\ UpgradeIdle
    /\ BatchIdle
    /\ LinkIdle
    /\ BaseIdle
    /\ AtomIdle
    /\ delta_db0 \in InitialBackends
    /\ delta_db = delta_db0
    /\ delta_cmds = <<>>
    /\ delta_pgops = <<>>
    /\ delta_state = "begin"
    /\ delta_queue = <<>>
    /\ delta_pos = 0
    /\ delta_ok = TRUE
    /\ delta_runs = 0

\* AlterRealm.apply up to the application of the commands of the delta
DeltaApplyBegin ==
    /\ delta_state = "begin"
    /\ delta_pgops' = BootstrapOps
    /\ delta_state' = "children"
    /\ UNCHANGED <<delta_db0, delta_db, delta_cmds, delta_queue, delta_pos, delta_ok,
                   delta_runs>>
    /\ UNCHANGED notDeltaVars

\* one command of the delta is applied
ApplyCommand(c) ==
    /\ delta_state = "children"
    /\ Len(delta_cmds) < MaxCalls
    /\ CommandApplies(c, delta_db0, delta_cmds)
    /\ delta_cmds' = Append(delta_cmds, c)
    /\ delta_pgops' = delta_pgops \o CommandOps(c, delta_db0)
    /\ UNCHANGED <<delta_db0, delta_db, delta_state, delta_queue, delta_pos, delta_ok,
                   delta_runs>>
    /\ UNCHANGED notDeltaVars

\* AlterRealm.execute, run to its end or to the operation that raises
DeltaExecute ==
    /\ delta_state = "children"
    /\ LET que == SerializeDeltaOps(delta_pgops)
           st == ExecuteDeltaOps(que, [db |-> delta_db, ok |-> TRUE])
       IN  /\ delta_queue' = que
           /\ delta_pos' = Len(que)
           /\ delta_db' = st.db
           /\ delta_ok' = st.ok
    /\ delta_state' = "done"
    /\ UNCHANGED <<delta_db0, delta_cmds, delta_pgops, delta_runs>>
    /\ UNCHANGED notDeltaVars

\* AlterRealm.execute, cut off after k operations went through
DeltaExecutePartly(k) ==
    /\ delta_state = "children"
    /\ LET que == SerializeDeltaOps(delta_pgops)
           st == ExecuteDeltaOps(SubSeq(que, 1, k), [db |-> delta_db, ok |-> TRUE])
       IN  /\ k < Len(que)
           /\ st.ok
           /\ delta_queue' = que
           /\ delta_pos' = k
           /\ delta_db' = st.db
    /\ delta_state' = "interrupted"
    /\ UNCHANGED <<delta_db0, delta_cmds, delta_pgops, delta_ok, delta_runs>>
    /\ UNCHANGED notDeltaVars

\* the same delta is executed again from its first operation
DeltaReplay ==
    /\ delta_state = "interrupted"
    /\ LET st == ExecuteDeltaOps(delta_queue, [db |-> delta_db, ok |-> TRUE])
       IN  /\ delta_db' = st.db
           /\ delta_ok' = st.ok
    /\ delta_runs' = delta_runs + 1
    /\ delta_state' = "done"
    /\ UNCHANGED <<delta_db0, delta_cmds, delta_pgops, delta_queue, delta_pos>>
    /\ UNCHANGED notDeltaVars

NextDelta ==
    \/ DeltaApplyBegin
    \/ \E c \in DeltaCommands : ApplyCommand(c)
    \/ DeltaExecute
    \/ \E k \in 0..Len(delta_pgops) : DeltaExecutePartly(k)
    \/ DeltaReplay

SpecDelta == InitDelta /\ [][NextDelta]_vars

(***************************************************************************)
(* Claims about the order of the executed sequence of a delta.             *)
(***************************************************************************)
DropStatements == {"DropTable", "DropDomain", "DropIndex", "DropSchema", "DropSequence"}

\* the metadata table a row is inserted into
RowTable(row) ==
    CASE row = "row:module" -> "table:caos.module"
      [] row = "row:atom" -> "table:caos.atom"
      [] row = "row:concept" -> "table:caos.concept"
      [] row \in {"row:ptr", "row:link"} -> "table:caos.link"
      [] row = "row:prop" -> "table:caos.link_property"

\* the backend after the first k operations of an uninterrupted execution
PrefixState(k) ==
    ExecuteDeltaOps(SubSeq(delta_queue, 1, k), [db |-> delta_db0, ok |-> TRUE])

\* C31: every drop operation of a delta (table, domain, index, schema,
\* sequence) is scheduled at priority 3 or higher and so executes after
\* every operation of priority 0, 1 and 2 of the delta
C31_DropsAtPriority3OrHigher ==
    \A i \in DOMAIN delta_queue :
        delta_queue[i].op \in DropStatements =>
            /\ delta_queue[i].priority >= 3
            /\ \A j \in DOMAIN delta_queue :
                   delta_queue[j].priority \in 0..2 => j < i

\* C32: the creation of schema caos precedes the creation of every
\* bootstrap metadata table, every table creation precedes every metadata
\* row insert into the table, and every metadata row insert precedes every
\* index creation
C32_SchemasTablesRowsIndexes ==
    \A i, j \in DOMAIN delta_queue :
        LET a == delta_queue[i]
            b == delta_queue[j]
        IN  /\ (a.op = "CreateSchema" /\ a.obj = "schema:caos"
                /\ b.op = "CreateTable" /\ b.cmd = "AlterRealm") => i < j
            /\ (a.op = "CreateTable" /\ b.op = "Insert" /\ RowTable(b.obj) = a.obj)
                   => i < j
            /\ (a.op = "Insert" /\ b.op = "CreateIndex") => i < j

\* C33: replaying a delta after a partial execution does not raise and ends
\* in the backend state of one uninterrupted execution
C33_ReplayIdempotent ==
    (delta_state = "done" /\ delta_runs = 1 /\ PrefixState(Len(delta_queue)).ok) =>
        /\ delta_ok
        /\ delta_db = PrefixState(Len(delta_queue)).db

\* C35: the metadata row insert of a newly created link property runs after
\* the metadata row insert of its host link created in the same delta
C35_PropertyRowAfterLinkRow ==
    \A i, j \in DOMAIN delta_queue :
        (/\ delta_queue[i].op = "Insert" /\ delta_queue[i].obj = "row:link"
         /\ delta_queue[j].op = "Insert" /\ delta_queue[j].obj = "row:prop") => i < j

C35_Witness ==
    /\ delta_state = "done"
    /\ delta_ok
    /\ \E i, j \in DOMAIN delta_queue :
          /\ delta_queue[i].op = "Insert" /\ delta_queue[i].obj = "row:link"
          /\ delta_queue[j].op = "Insert" /\ delta_queue[j].obj = "row:prop"
          /\ delta_queue[j].cmd = "CreateLinkProperty"

ColumnDropsAndTypeAlterations == {"AlterTableDropColumn", "AlterTableAlterColumnType"}

\* C36: the domain drop of DeleteAtom runs after every column drop and every
\* column type alteration of the delta, and it is skipped without error
\* when the domain does not exist
C36_DomainDropLastAndGuarded ==
    \A i \in DOMAIN delta_queue :
        (delta_queue[i].op = "DropDomain" /\ delta_queue[i].cmd = "DeleteAtom") =>
            /\ \A j \in DOMAIN delta_queue :
                   delta_queue[j].op \in ColumnDropsAndTypeAlterations => j < i
            /\ "domain:a" \notin PrefixState(i - 1).db
                   => PrefixState(i) = PrefixState(i - 1)

C36_Witness ==
    /\ delta_state = "done"
    /\ delta_runs = 0
    /\ delta_ok
    /\ \E i, j, k \in DOMAIN delta_queue :
          /\ delta_queue[i].op = "DropDomain"
          /\ delta_queue[j].op = "AlterTableDropColumn"
          /\ delta_queue[k].op = "AlterTableAlterColumnType"

C36_WitnessSkipped ==
    /\ delta_state = "done"
    /\ delta_runs = 0
    /\ delta_ok
    /\ "domain:a" \notin delta_db0
    /\ \E i \in DOMAIN delta_queue : delta_queue[i].op = "DropDomain"

\* C38: the schema drop of DeleteModule executes after every priority-3
\* drop of the delta, in particular after the DropTable of a concept
C38_SchemaDropAfterPriority3Drops ==
    \A i, j \in DOMAIN delta_queue :
        (/\ delta_queue[i].op = "DropSchema" /\ delta_queue[i].cmd = "DeleteModule"
         /\ delta_queue[j].op \in DropStatements /\ delta_queue[j].priority = 3) => j < i

(***************************************************************************)
(* The batches of a command and its pgops: attach_alter_table puts the     *)
(* batches registered so far into self.pgops.  The calls are those a link  *)
(* command and the commands below it make on the link command's batcher:   *)
(* the plain batch of priority 0 (columns, primary key), the contained     *)
(* batch of priority 3 (defaults) and manual batches.                      *)
(***************************************************************************)
\* itertools.chain.from_iterable(typecommands.values())
RegisteredBatches == UNION {Range(multicommands[k]) : k \in DOMAIN multicommands}

\* sorted(commands, key=lambda i: i.priority); self.pgops.update(commands):
\* pgops is an ordered set, a batch already in it stays where it is
AttachedAfter(att, registered) ==
    LET fresh == {b \in registered : b \notin Range(att)}
        keys == SortedSeq({batches[b].priority : b \in fresh})
        ids == SortedSeq(fresh)
    IN  att \o Concat([k \in 1..Len(keys) |->
                         SelectSeq(ids, LAMBDA b : batches[b].priority = keys[k])])

\* CompositePrototypeMetaCommand._attach_multicommand(context, dbops.AlterTable)
attach_alter_table ==
    /\ batch_state = "applying"
    /\ attached' = AttachedAfter(attached, RegisteredBatches)
    /\ batch_state' = "attached"
    /\ UNCHANGED <<multicommands, table_name, batches, calls>>
    /\ UNCHANGED notBatchVars

\* the command's apply returns; it has called attach_alter_table once
ApplyReturns ==
    /\ batch_state = "attached"
    /\ batch_state' = "returned"
    /\ UNCHANGED <<multicommands, table_name, batches, calls, attached>>
    /\ UNCHANGED notBatchVars

NextAttach ==
    \/ \E prio \in BatchPriorities, contained \in BOOLEAN, manual \in BOOLEAN :
          get_alter_table(prio, FALSE, contained, manual, "")
    \/ attach_alter_table
    \/ ApplyReturns

SpecAttach == InitBatch /\ [][NextAttach]_vars

\* C37: every batch obtained from get_alter_table without manual=True is
\* among the command's physical operations when its apply returns, also a
\* batch first created after the last attach_alter_table call
C37_NoBatchLost ==
    batch_state = "returned" =>
        \A i \in DOMAIN calls : ~calls[i].manual => calls[i].batch \in Range(attached)

====
